---- MODULE Spec2Model ----
(***************************************************************************)
(* Model of crates/n42/alloy-rpc-types-engine/src/payload.rs: the engine   *)
(* API payload records (ExecutionPayloadV1/V2/V3, ExecutionPayloadInputV2, *)
(* the untagged ExecutionPayload), their SSZ codec and their JSON codec.   *)
(*                                                                         *)
(* Bytes are naturals 0..255, byte strings are sequences of bytes, JSON    *)
(* text strings are sequences of one-character strings, a JSON object is   *)
(* the sequence of its <<key, value>> members in document order.           *)
(***************************************************************************)
EXTENDS Integers, Sequences, FiniteSets, TLC

VARIABLES
    pc,        \* position of the scenario: which operation ran last
    value,     \* the typed record handed to a codec: <<type name, record>>
    other,     \* a second record of the same type (binary codec scenarios)
    buf,       \* Vec<u8> written by ssz_append for value
    otherBuf,  \* Vec<u8> written by ssz_append for other
    size,      \* what ssz_bytes_len returned for value
    doc,       \* the JSON document on the wire
    edit,      \* what the producer of the document changed: <<kind, detail>>
    target,    \* the type a decoder was asked to produce
    result,    \* Result of the last decode: <<"Ok", v>> or <<"Err", kind>>
    bundle,    \* a BlobsBundleV1: [commitments, proofs, blobs]
    before,    \* the bundle as it was when the last call on it began
    call       \* the last call on the bundle: <<method, len>>

vars ==
    <<pc, value, other, buf, otherBuf, size, doc, edit, target, result,
      bundle, before, call>>

----------------------------------------------------------------------------
(* Bounds of the explored inputs.                                          *)

MaxTxs == 1
MaxWithdrawals == 1
MaxExtraData == 1
MaxQuantity == 1
MaxSidecars == 2
MaxBlobs == 2

----------------------------------------------------------------------------
(* Generic helpers.                                                        *)

Min(a, b) == IF a < b THEN a ELSE b

RECURSIVE Concat(_)
Concat(ss) == IF ss = <<>> THEN <<>> ELSE Head(ss) \o Concat(Tail(ss))

Slice(s, from, to) == [i \in 1..(to - from) |-> s[from + i]]

Ok(v) == <<"Ok", v>>
Err(kind) == <<"Err", kind>>
IsOk(r) == r[1] = "Ok"

None == <<"None">>
Some(v) == <<"Some", v>>

NoValue == <<"-", <<>>>>

\* An n byte string whose bytes are derived from a seed.
Pattern(n, seed) == [i \in 1..n |-> (seed + 7 * i) % 256]

\* Little endian encoding of n in w bytes, and its inverse.
RECURSIVE LittleEndian(_, _)
LittleEndian(n, w) ==
    IF w = 0 THEN <<>> ELSE <<n % 256>> \o LittleEndian(n \div 256, w - 1)

RECURSIVE FromLittleEndian(_)
FromLittleEndian(b) ==
    IF b = <<>> THEN 0 ELSE b[1] + 256 * FromLittleEndian(Tail(b))

----------------------------------------------------------------------------
(* The record types.                                                       *)

\* Field names of ExecutionPayloadV1 in declaration order.
V1Fields ==
    << "parent_hash", "fee_recipient", "state_root", "receipts_root",
       "logs_bloom", "prev_randao", "block_number", "gas_limit", "gas_used",
       "timestamp", "extra_data", "base_fee_per_gas", "block_hash",
       "transactions", "difficulty", "nonce" >>

\* Declared type of each field of the payload records.
FieldType(f) ==
    CASE f \in {"parent_hash", "state_root", "receipts_root", "prev_randao",
                "block_hash"} -> "B256"
      [] f = "fee_recipient" -> "Address"
      [] f = "logs_bloom" -> "Bloom"
      [] f \in {"block_number", "gas_limit", "gas_used", "timestamp",
                "blob_gas_used", "excess_blob_gas"} -> "u64"
      [] f = "extra_data" -> "Bytes"
      [] f \in {"base_fee_per_gas", "difficulty"} -> "U256"
      [] f = "transactions" -> "VecBytes"
      [] f = "nonce" -> "B64"
      [] f = "withdrawals" -> "VecWithdrawal"

\* Field names of eip4895::Withdrawal in declaration order.
WithdrawalFields == <<"index", "validator_index", "address", "amount">>

WithdrawalFieldType(f) == IF f = "address" THEN "Address" ELSE "u64"

----------------------------------------------------------------------------
(* The SSZ container codec used by the hand-written impls                  *)
(* (ssz::SszEncoder, ssz::SszDecoderBuilder, ssz::SszDecoder).             *)

BYTES_PER_LENGTH_OFFSET == 4

is_ssz_fixed_len(type) == type \notin {"Bytes", "VecBytes", "VecWithdrawal"}

ssz_fixed_len(type) ==
    CASE type = "B256" -> 32
      [] type = "Address" -> 20
      [] type = "Bloom" -> 256
      [] type = "u64" -> 8
      [] type = "U256" -> 32
      [] type = "B64" -> 8
      [] type = "Withdrawal" -> 44
      [] OTHER -> BYTES_PER_LENGTH_OFFSET

encode_length(len) == LittleEndian(len, BYTES_PER_LENGTH_OFFSET)

SszEncoder_container(b, num_fixed_bytes) ==
    [buf |-> b, offset |-> num_fixed_bytes, variable_bytes |-> <<>>]

\* encoder.append(item): a fixed-size item goes inline, a variable-size item
\* leaves its offset inline and its bytes in the tail.
SszEncoder_append(enc, fixed, bytes) ==
    IF fixed
    THEN [enc EXCEPT !.buf = @ \o bytes]
    ELSE [enc EXCEPT
            !.buf = @ \o encode_length(enc.offset + Len(enc.variable_bytes)),
            !.variable_bytes = @ \o bytes]

SszEncoder_finalize(enc) == enc.buf \o enc.variable_bytes

Withdrawal_as_ssz_bytes(w) ==
    LittleEndian(w.index, 8) \o LittleEndian(w.validator_index, 8)
        \o w.address \o LittleEndian(w.amount, 8)

RECURSIVE AppendVariableItems(_, _)
AppendVariableItems(enc, items) ==
    IF items = <<>> THEN enc
    ELSE AppendVariableItems(SszEncoder_append(enc, FALSE, Head(items)),
                             Tail(items))

\* <T as ssz::Encode>::as_ssz_bytes for the field types.
as_ssz_bytes(type, v) ==
    CASE type \in {"u64", "U256"} -> LittleEndian(v, ssz_fixed_len(type))
      [] type = "VecBytes" ->
            SszEncoder_finalize(AppendVariableItems(
                SszEncoder_container(<<>>, Len(v) * BYTES_PER_LENGTH_OFFSET), v))
      [] type = "VecWithdrawal" ->
            Concat([i \in 1..Len(v) |-> Withdrawal_as_ssz_bytes(v[i])])
      [] OTHER -> v

\* Appends the <<field name, value>> items to the encoder in order.
RECURSIVE AppendFields(_, _)
AppendFields(enc, items) ==
    IF items = <<>> THEN enc
    ELSE LET type == FieldType(Head(items)[1])
         IN  AppendFields(
                 SszEncoder_append(enc, is_ssz_fixed_len(type),
                                   as_ssz_bytes(type, Head(items)[2])),
                 Tail(items))

read_offset(bytes) ==
    IF Len(bytes) < BYTES_PER_LENGTH_OFFSET THEN Err("InvalidLengthPrefix")
    ELSE Ok(FromLittleEndian(Slice(bytes, 0, BYTES_PER_LENGTH_OFFSET)))

sanitize_offset(offset, previous_offset, num_bytes, num_fixed_bytes) ==
    IF num_fixed_bytes # None /\ offset < num_fixed_bytes[2]
    THEN Err("OffsetIntoFixedPortion")
    ELSE IF previous_offset = None /\ num_fixed_bytes # None
            /\ offset # num_fixed_bytes[2]
    THEN Err("OffsetSkipsVariableBytes")
    ELSE IF offset > num_bytes THEN Err("OffsetOutOfBounds")
    ELSE IF previous_offset # None /\ previous_offset[2] > offset
    THEN Err("OffsetsAreDecreasing")
    ELSE Ok(offset)

SszDecoderBuilder_new(bytes) ==
    [bytes |-> bytes, items |-> <<>>, offsets |-> <<>>, items_index |-> 0]

\* builder.register_type::<T>()
register_type(b, type) ==
    IF is_ssz_fixed_len(type)
    THEN LET start == b.items_index
             end == b.items_index + ssz_fixed_len(type)
         IN  IF end > Len(b.bytes) THEN Err("InvalidByteLength")
             ELSE Ok([b EXCEPT !.items = Append(@, Slice(b.bytes, start, end)),
                               !.items_index = end])
    ELSE LET read == read_offset(Slice(b.bytes, b.items_index, Len(b.bytes)))
             prev == IF b.offsets = <<>> THEN None
                     ELSE Some(b.offsets[Len(b.offsets)].offset)
             clean == IF IsOk(read)
                      THEN sanitize_offset(read[2], prev, Len(b.bytes), None)
                      ELSE read
         IN  IF ~IsOk(clean) THEN clean
             ELSE Ok([b EXCEPT
                        !.offsets = Append(@, [position |-> Len(b.items) + 1,
                                               offset |-> clean[2]]),
                        !.items = Append(@, <<>>),
                        !.items_index = @ + BYTES_PER_LENGTH_OFFSET])

\* The run of register_type calls of one decoder, stopping at the first error.
RECURSIVE RegisterTypes(_, _)
RegisterTypes(b, types) ==
    IF types = <<>> THEN Ok(b)
    ELSE LET r == register_type(b, Head(types))
         IN  IF IsOk(r) THEN RegisterTypes(r[2], Tail(types)) ELSE r

\* builder.build(): finalize, which cuts the variable-size items.
SszDecoderBuilder_build(b) ==
    IF b.offsets # <<>>
    THEN LET first == b.offsets[1].offset
             n == Len(b.offsets)
             EndOf(k) == IF k = n THEN Len(b.bytes) ELSE b.offsets[k + 1].offset
             OffsetAt(i) ==
                 CHOOSE k \in 1..n : b.offsets[k].position = i
         IN  IF first < b.items_index THEN Err("OffsetIntoFixedPortion")
             ELSE IF first > b.items_index THEN Err("OffsetSkipsVariableBytes")
             ELSE Ok([items |->
                        [i \in 1..Len(b.items) |->
                            IF \E k \in 1..n : b.offsets[k].position = i
                            THEN Slice(b.bytes, b.offsets[OffsetAt(i)].offset,
                                       EndOf(OffsetAt(i)))
                            ELSE b.items[i]]])
    ELSE IF b.items_index # Len(b.bytes) THEN Err("InvalidByteLength")
    ELSE Ok([items |-> b.items])

Withdrawal_from_ssz_bytes(bytes) ==
    IF Len(bytes) # ssz_fixed_len("Withdrawal") THEN Err("InvalidByteLength")
    ELSE Ok([index |-> FromLittleEndian(Slice(bytes, 0, 8)),
             validator_index |-> FromLittleEndian(Slice(bytes, 8, 16)),
             address |-> Slice(bytes, 16, 36),
             amount |-> FromLittleEndian(Slice(bytes, 36, 44))])

\* decode_list_of_variable_length_items for Vec<Bytes>.
RECURSIVE DecodeVariableItems(_, _, _, _, _)
DecodeVariableItems(bytes, i, num_items, offset, first_offset) ==
    IF i > num_items THEN Ok(<<>>)
    ELSE IF i = num_items
    THEN Ok(<<Slice(bytes, offset, Len(bytes))>>)
    ELSE LET read == read_offset(Slice(bytes, i * BYTES_PER_LENGTH_OFFSET,
                                       Len(bytes)))
             next == IF IsOk(read)
                     THEN sanitize_offset(read[2], Some(offset), Len(bytes),
                                          Some(first_offset))
                     ELSE read
             rest == DecodeVariableItems(bytes, i + 1, num_items, next[2],
                                         first_offset)
         IN  IF ~IsOk(next) THEN next
             ELSE IF ~IsOk(rest) THEN rest
             ELSE Ok(<<Slice(bytes, offset, next[2])>> \o rest[2])

VecBytes_from_ssz_bytes(bytes) ==
    IF bytes = <<>> THEN Ok(<<>>)
    ELSE LET read == read_offset(bytes)
             first == IF IsOk(read)
                      THEN sanitize_offset(read[2], None, Len(bytes),
                                           Some(read[2]))
                      ELSE read
         IN  IF ~IsOk(first) THEN first
             ELSE IF first[2] % BYTES_PER_LENGTH_OFFSET # 0
                     \/ first[2] < BYTES_PER_LENGTH_OFFSET
             THEN Err("InvalidListFixedBytesLen")
             ELSE DecodeVariableItems(bytes, 1,
                                      first[2] \div BYTES_PER_LENGTH_OFFSET,
                                      first[2], first[2])

VecWithdrawal_from_ssz_bytes(bytes) ==
    LET w == ssz_fixed_len("Withdrawal")
    IN  IF Len(bytes) % w # 0 THEN Err("InvalidByteLength")
        ELSE Ok([i \in 1..(Len(bytes) \div w) |->
                    Withdrawal_from_ssz_bytes(
                        Slice(bytes, (i - 1) * w, i * w))[2]])

\* <T as ssz::Decode>::from_ssz_bytes for the field types.
from_ssz_bytes(type, bytes) ==
    CASE type = "Bytes" -> Ok(bytes)
      [] type = "VecBytes" -> VecBytes_from_ssz_bytes(bytes)
      [] type = "VecWithdrawal" -> VecWithdrawal_from_ssz_bytes(bytes)
      [] type = "U256" ->
            IF Len(bytes) > ssz_fixed_len(type) THEN Err("InvalidByteLength")
            ELSE Ok(FromLittleEndian(bytes))
      [] OTHER ->
            IF Len(bytes) # ssz_fixed_len(type) THEN Err("InvalidByteLength")
            ELSE IF type = "u64" THEN Ok(FromLittleEndian(bytes))
            ELSE Ok(bytes)

\* The run of decoder.decode_next() calls, one per field in the order the
\* struct literal lists them, stopping at the first error; the i-th call reads
\* the i-th registered item and decodes it as the type of the i-th field.
RECURSIVE DecodeNext(_, _, _)
DecodeNext(items, fields, i) ==
    IF i > Len(fields) THEN Ok(<<>>)
    ELSE IF i > Len(items) THEN Err("OutOfBoundsByte")
    ELSE LET v == from_ssz_bytes(FieldType(fields[i]), items[i])
             rest == DecodeNext(items, fields, i + 1)
         IN  IF ~IsOk(v) THEN v
             ELSE IF ~IsOk(rest) THEN rest
             ELSE Ok(<<v[2]>> \o rest[2])

IndexOf(seq, x) == CHOOSE i \in 1..Len(seq) : seq[i] = x

\* The record with the given field names built from decoded values.
RecordOf(names, fields, vals) ==
    [f \in {names[i] : i \in 1..Len(names)} |-> vals[IndexOf(fields, f)]]

----------------------------------------------------------------------------
(* impl ssz::Decode / ssz::Encode for ExecutionPayloadV2.                  *)

\* The types registered by from_ssz_bytes, in order.
V2_registered_types ==
    << "B256", "Address", "B256", "B256", "Bloom", "B256", "u64", "u64",
       "u64", "u64", "Bytes", "U256", "B256", "VecBytes", "VecWithdrawal" >>

\* The fields materialized by decode_next, in order.
V2_decoded_fields == V1Fields \o <<"withdrawals">>

V2_from_ssz_bytes(bytes) ==
    LET builder == RegisterTypes(SszDecoderBuilder_new(bytes),
                                 V2_registered_types)
        decoder == IF IsOk(builder) THEN SszDecoderBuilder_build(builder[2])
                   ELSE builder
        vals == IF IsOk(decoder)
                THEN DecodeNext(decoder[2].items, V2_decoded_fields, 1)
                ELSE decoder
    IN  IF ~IsOk(vals) THEN vals
        ELSE Ok([payload_inner |-> RecordOf(V1Fields, V2_decoded_fields, vals[2]),
                 withdrawals |-> vals[2][IndexOf(V2_decoded_fields, "withdrawals")]])

\* The fields appended by ssz_append, in order.
V2_appended_fields ==
    << "parent_hash", "fee_recipient", "state_root", "receipts_root",
       "logs_bloom", "prev_randao", "block_number", "gas_limit", "gas_used",
       "timestamp", "extra_data", "base_fee_per_gas", "block_hash",
       "transactions", "withdrawals" >>

V2_field(self, f) ==
    IF f = "withdrawals" THEN self.withdrawals ELSE self.payload_inner[f]

\* V2_ssz_append with the head length of ExecutionPayloadV3.
V2_ssz_append_v3_offset(self, b) ==
    LET offset == ssz_fixed_len("B256") * 5 + ssz_fixed_len("Address")
                    + ssz_fixed_len("Bloom") + ssz_fixed_len("u64") * 6
                    + ssz_fixed_len("U256") + BYTES_PER_LENGTH_OFFSET * 3
        encoder == SszEncoder_container(b, offset)
    IN  SszEncoder_finalize(AppendFields(encoder,
            [i \in 1..Len(V2_appended_fields) |->
                <<V2_appended_fields[i], V2_field(self, V2_appended_fields[i])>>]))

V2_ssz_append(self, b) ==
    LET offset == ssz_fixed_len("B256") * 5 + ssz_fixed_len("Address")
                    + ssz_fixed_len("Bloom") + ssz_fixed_len("u64") * 4
                    + ssz_fixed_len("U256") + BYTES_PER_LENGTH_OFFSET * 3
        encoder == SszEncoder_container(b, offset)
    IN  SszEncoder_finalize(AppendFields(encoder,
            [i \in 1..Len(V2_appended_fields) |->
                <<V2_appended_fields[i], V2_field(self, V2_appended_fields[i])>>]))

----------------------------------------------------------------------------
(* impl ssz::Decode / ssz::Encode for ExecutionPayloadV3.                  *)

V3_registered_types == V2_registered_types \o <<"u64", "u64">>

V3_decoded_fields ==
    V1Fields \o <<"withdrawals", "blob_gas_used", "excess_blob_gas">>

V3_from_ssz_bytes(bytes) ==
    LET builder == RegisterTypes(SszDecoderBuilder_new(bytes),
                                 V3_registered_types)
        decoder == IF IsOk(builder) THEN SszDecoderBuilder_build(builder[2])
                   ELSE builder
        vals == IF IsOk(decoder)
                THEN DecodeNext(decoder[2].items, V3_decoded_fields, 1)
                ELSE decoder
        At(f) == vals[2][IndexOf(V3_decoded_fields, f)]
    IN  IF ~IsOk(vals) THEN vals
        ELSE Ok([payload_inner |->
                    [payload_inner |->
                        RecordOf(V1Fields, V3_decoded_fields, vals[2]),
                     withdrawals |-> At("withdrawals")],
                 blob_gas_used |-> At("blob_gas_used"),
                 excess_blob_gas |-> At("excess_blob_gas")])

V3_appended_fields ==
    V2_appended_fields \o <<"blob_gas_used", "excess_blob_gas">>

V3_field(self, f) ==
    IF f \in {"blob_gas_used", "excess_blob_gas"} THEN self[f]
    ELSE V2_field(self.payload_inner, f)

\* V3_ssz_append with the head length of ExecutionPayloadV2.
V3_ssz_append_v2_offset(self, b) ==
    LET offset == ssz_fixed_len("B256") * 5 + ssz_fixed_len("Address")
                    + ssz_fixed_len("Bloom") + ssz_fixed_len("u64") * 4
                    + ssz_fixed_len("U256") + BYTES_PER_LENGTH_OFFSET * 3
        encoder == SszEncoder_container(b, offset)
    IN  SszEncoder_finalize(AppendFields(encoder,
            [i \in 1..Len(V3_appended_fields) |->
                <<V3_appended_fields[i], V3_field(self, V3_appended_fields[i])>>]))

V3_ssz_append(self, b) ==
    LET offset == ssz_fixed_len("B256") * 5 + ssz_fixed_len("Address")
                    + ssz_fixed_len("Bloom") + ssz_fixed_len("u64") * 6
                    + ssz_fixed_len("U256") + BYTES_PER_LENGTH_OFFSET * 3
        encoder == SszEncoder_container(b, offset)
    IN  SszEncoder_finalize(AppendFields(encoder,
            [i \in 1..Len(V3_appended_fields) |->
                <<V3_appended_fields[i], V3_field(self, V3_appended_fields[i])>>]))

----------------------------------------------------------------------------
(* ssz_bytes_len.                                                          *)

RECURSIVE SumLen(_)
SumLen(items) ==
    IF items = <<>> THEN 0 ELSE Len(Head(items)) + SumLen(Tail(items))

\* <T as ssz::Encode>::ssz_bytes_len for the field types: a list of
\* fixed-size items is its length times the item width, a list of
\* variable-size items is the items and one offset each.
ssz_bytes_len(type, v) ==
    CASE type = "Bytes" -> Len(v)
      [] type = "VecBytes" -> SumLen(v) + BYTES_PER_LENGTH_OFFSET * Len(v)
      [] type = "VecWithdrawal" -> ssz_fixed_len("Withdrawal") * Len(v)
      [] OTHER -> ssz_fixed_len(type)

\* The derived ssz_bytes_len of ExecutionPayloadV1 over its fields from the
\* i-th on: a fixed-size field counts its width, a variable-size field an
\* offset and its own ssz_bytes_len.
RECURSIVE V1_ssz_bytes_len_from(_, _)
V1_ssz_bytes_len_from(self, i) ==
    IF i > Len(V1Fields) THEN 0
    ELSE (IF is_ssz_fixed_len(FieldType(V1Fields[i]))
          THEN ssz_fixed_len(FieldType(V1Fields[i]))
          ELSE BYTES_PER_LENGTH_OFFSET
                + ssz_bytes_len(FieldType(V1Fields[i]), self[V1Fields[i]]))
         + V1_ssz_bytes_len_from(self, i + 1)

V1_ssz_bytes_len(self) == V1_ssz_bytes_len_from(self, 1)

V2_ssz_bytes_len(self) ==
    V1_ssz_bytes_len(self.payload_inner) + BYTES_PER_LENGTH_OFFSET
        + ssz_bytes_len("VecWithdrawal", self.withdrawals)

V3_ssz_bytes_len(self) ==
    V2_ssz_bytes_len(self.payload_inner) + ssz_fixed_len("u64") * 2

----------------------------------------------------------------------------
(* JSON values: <<"str", characters>>, <<"arr", elements>>,                *)
(* <<"obj", members>> with members a sequence of <<key, value>>, and       *)
(* <<"null", <<>>>>.  The scalar codecs of the field types follow.         *)

JStr(chars) == <<"str", chars>>
JArr(items) == <<"arr", items>>
JObj(members) == <<"obj", members>>
JNull == <<"null", <<>>>>

HexChars ==
    <<"0", "1", "2", "3", "4", "5", "6", "7", "8", "9",
      "a", "b", "c", "d", "e", "f">>

UpperHexChars == <<"A", "B", "C", "D", "E", "F">>

\* The value of each hex digit, of either case.
HexValues ==
    [c \in {HexChars[i] : i \in 1..16} \cup {UpperHexChars[i] : i \in 1..6} |->
        IF \E i \in 1..16 : HexChars[i] = c
        THEN (CHOOSE i \in 1..16 : HexChars[i] = c) - 1
        ELSE (CHOOSE i \in 1..6 : UpperHexChars[i] = c) + 9]

\* The value of a hex digit, -1 for any other character.
HexValue(c) == IF c \in DOMAIN HexValues THEN HexValues[c] ELSE -1

HasHexPrefix(chars) ==
    Len(chars) >= 2 /\ chars[1] = "0" /\ chars[2] \in {"x", "X"}

\* Serialize of FixedBytes<N> and Bytes: "0x" and two lowercase digits a byte.
hex_serialize(bytes) ==
    JStr(<<"0", "x">> \o
         [i \in 1..(2 * Len(bytes)) |->
            IF i % 2 = 1 THEN HexChars[(bytes[(i + 1) \div 2] \div 16) + 1]
            ELSE HexChars[(bytes[i \div 2] % 16) + 1]])

\* Deserialize of Bytes: a hex string, the prefix optional.
hex_deserialize(jv) ==
    IF jv[1] # "str" THEN Err("invalid type")
    ELSE LET digits == IF HasHexPrefix(jv[2])
                       THEN Slice(jv[2], 2, Len(jv[2])) ELSE jv[2]
         IN  IF Len(digits) % 2 # 0 THEN Err("odd number of digits")
             ELSE IF \E i \in 1..Len(digits) : HexValue(digits[i]) < 0
             THEN Err("invalid character")
             ELSE Ok([i \in 1..(Len(digits) \div 2) |->
                        16 * HexValue(digits[2 * i - 1])
                            + HexValue(digits[2 * i])])

\* Deserialize of FixedBytes<N>: a hex string of exactly N bytes.
check_length(n, r) ==
    IF IsOk(r) /\ Len(r[2]) # n THEN Err("invalid length") ELSE r

fixed_bytes_deserialize(n, jv) == check_length(n, hex_deserialize(jv))

RECURSIVE HexDigitsOf(_)
HexDigitsOf(n) ==
    IF n < 16 THEN <<HexChars[n + 1]>>
    ELSE Append(HexDigitsOf(n \div 16), HexChars[(n % 16) + 1])

\* alloy_serde::quantity::serialize and Serialize of U256: "0x" and the
\* hex digits of the number without leading zeros, "0x0" for zero.
quantity_serialize(n) == JStr(<<"0", "x">> \o HexDigitsOf(n))

RECURSIVE DigitsValue(_, _)
DigitsValue(digits, radix) ==
    IF digits = <<>> THEN 0
    ELSE radix * DigitsValue(SubSeq(digits, 1, Len(digits) - 1), radix)
            + HexValue(digits[Len(digits)])

RECURSIVE StripZeros(_)
StripZeros(digits) ==
    IF digits # <<>> /\ digits[1] = "0" THEN StripZeros(Tail(digits))
    ELSE digits

\* alloy_serde::quantity::deserialize and Deserialize of U256 for a number of
\* the given width in bits: a "0x" string of hex digits of either case with
\* any number of leading zeros, or a string of decimal digits.
quantity_deserialize(bits, jv) ==
    IF jv[1] # "str" THEN Err("invalid type")
    ELSE LET hex == HasHexPrefix(jv[2])
             radix == IF hex THEN 16 ELSE 10
             digits == StripZeros(IF hex THEN Slice(jv[2], 2, Len(jv[2]))
                                  ELSE jv[2])
         IN  IF \E i \in 1..Len(digits) :
                    HexValue(digits[i]) < 0 \/ HexValue(digits[i]) >= radix
             THEN Err("invalid digit")
             ELSE IF hex /\ 4 * Len(digits) > bits THEN Err("overflow")
             ELSE Ok(DigitsValue(digits, radix))

----------------------------------------------------------------------------
(* serde: names, derived Serialize and derived Deserialize.                *)

\* #[serde(rename_all = "camelCase")] on the field names.
CamelCase(f) ==
    CASE f = "parent_hash" -> "parentHash"
      [] f = "fee_recipient" -> "feeRecipient"
      [] f = "state_root" -> "stateRoot"
      [] f = "receipts_root" -> "receiptsRoot"
      [] f = "logs_bloom" -> "logsBloom"
      [] f = "prev_randao" -> "prevRandao"
      [] f = "block_number" -> "blockNumber"
      [] f = "gas_limit" -> "gasLimit"
      [] f = "gas_used" -> "gasUsed"
      [] f = "extra_data" -> "extraData"
      [] f = "base_fee_per_gas" -> "baseFeePerGas"
      [] f = "block_hash" -> "blockHash"
      [] f = "blob_gas_used" -> "blobGasUsed"
      [] f = "excess_blob_gas" -> "excessBlobGas"
      [] f = "validator_index" -> "validatorIndex"
      [] f = "latest_valid_hash" -> "latestValidHash"
      [] f = "execution_payload" -> "executionPayload"
      [] f = "block_value" -> "blockValue"
      [] f = "validation_error" -> "validationError"
      [] OTHER -> f

Keys(members) == {members[i][1] : i \in 1..Len(members)}

KeyNames(fields) == {CamelCase(fields[i]) : i \in 1..Len(fields)}

Withdrawal_serialize(w) ==
    JObj(<< <<"index", quantity_serialize(w.index)>>,
            <<"validatorIndex", quantity_serialize(w.validator_index)>>,
            <<"address", hex_serialize(w.address)>>,
            <<"amount", quantity_serialize(w.amount)>> >>)

\* Serialize of a field value of the given type.
serialize(type, v) ==
    CASE type \in {"u64", "U256"} -> quantity_serialize(v)
      [] type = "VecBytes" -> JArr([i \in 1..Len(v) |-> hex_serialize(v[i])])
      [] type = "VecWithdrawal" ->
            JArr([i \in 1..Len(v) |-> Withdrawal_serialize(v[i])])
      [] type = "OptionVecWithdrawal" ->
            IF v = None THEN JNull
            ELSE JArr([i \in 1..Len(v[2]) |-> Withdrawal_serialize(v[2][i])])
      [] OTHER -> hex_serialize(v)

\* Deserialize of a scalar field value of the given type.
scalar_deserialize(type, jv) ==
    CASE type = "u64" -> quantity_deserialize(64, jv)
      [] type = "U256" -> quantity_deserialize(256, jv)
      [] type = "Bytes" -> hex_deserialize(jv)
      [] OTHER -> fixed_bytes_deserialize(ssz_fixed_len(type), jv)

\* The type of field f of the named struct.
StructFieldType(struct, f) ==
    CASE struct = "Withdrawal" -> WithdrawalFieldType(f)
      [] struct = "ExecutionPayloadInputV2" /\ f = "withdrawals" ->
            "OptionVecWithdrawal"
      [] struct = "PayloadStatus" -> "OptionB256"
      [] struct = "ExecutionPayloadEnvelopeV2" /\ f = "block_value" -> "U256"
      [] struct = "ExecutionPayloadEnvelopeV2" /\ f = "execution_payload" ->
            "ExecutionPayloadFieldV2"
      [] struct = "PayloadStatusEnum::Invalid" -> "String"
      [] OTHER -> FieldType(f)

IsOptionType(type) == type \in {"OptionVecWithdrawal", "OptionB256"}

RECURSIVE deserialize(_, _)

\* The end of visit_map, every member met: parsed[i] is the result for member
\* i.  The first failure in document order is the error; then a field never
\* met is missing unless it is an Option, which is None.
VisitMapEnd(struct, members, fields, parsed) ==
    LET n == Len(members)
        names == {fields[k] : k \in 1..Len(fields)}
        known == KeyNames(fields)
        Bad(i) == members[i][1] \in known /\ ~IsOk(parsed[i])
        Missing(f) == /\ CamelCase(f) \notin Keys(members)
                      /\ ~IsOptionType(StructFieldType(struct, f))
        At(f) == CHOOSE i \in 1..n : members[i][1] = CamelCase(f)
    IN  IF \E i \in 1..n : Bad(i)
        THEN parsed[CHOOSE k \in 1..n : Bad(k) /\ \A j \in 1..(k - 1) : ~Bad(j)]
        ELSE IF \E k \in 1..Len(fields) : Missing(fields[k])
        THEN Err("missing field")
        ELSE Ok([f \in names |->
                    IF CamelCase(f) \in Keys(members) THEN parsed[At(f)][2]
                    ELSE None])

\* The visit_map of the derived Deserialize of the named struct over the
\* members that reach it, for the given fields of the struct: a key naming a
\* field twice is a duplicate, a field's value is parsed when its key is
\* met, and other keys are skipped.
VisitMap(struct, members, fields) ==
    LET names == {fields[k] : k \in 1..Len(fields)}
        known == KeyNames(fields)
        Field(i) == CHOOSE f \in names : CamelCase(f) = members[i][1]
        Dup(i) == \E j \in 1..(i - 1) : members[j][1] = members[i][1]
    IN  VisitMapEnd(struct, members, fields,
                    [i \in 1..Len(members) |->
                        IF members[i][1] \notin known THEN NoValue
                        ELSE IF Dup(i) THEN Err("duplicate field")
                        ELSE deserialize(StructFieldType(struct, Field(i)),
                                         members[i][2])])

\* The end of Deserialize of eip4895::Withdrawal given the result r of
\* reading the members of an object, or the elements of an array up to the
\* number of fields: an element that fails is the error; then an array that
\* ends early is an invalid length, and one that goes on after the last
\* field leaves trailing characters in the document.
Withdrawal_end(jv, r) ==
    IF jv[1] = "obj" \/ ~IsOk(r) THEN r
    ELSE IF Len(jv[2]) < Len(WithdrawalFields) THEN Err("invalid length")
    ELSE IF Len(jv[2]) > Len(WithdrawalFields)
    THEN Err("trailing characters")
    ELSE r

\* Deserialize of eip4895::Withdrawal from an object (visit_map), or from an
\* array of its fields in declaration order (visit_seq, which reads the
\* elements one by one).
Withdrawal_deserialize(jv) ==
    IF jv[1] \notin {"obj", "arr"} THEN Err("invalid type")
    ELSE Withdrawal_end(jv,
            VisitMap("Withdrawal",
                     IF jv[1] = "obj" THEN jv[2]
                     ELSE [i \in 1..Min(Len(jv[2]), Len(WithdrawalFields)) |->
                            <<CamelCase(WithdrawalFields[i]), jv[2][i]>>],
                     IF jv[1] = "obj" THEN WithdrawalFields
                     ELSE SubSeq(WithdrawalFields, 1,
                                 Min(Len(jv[2]), Len(WithdrawalFields)))))

\* The end of Deserialize of Vec<T>: the first element that fails is the
\* error.
VecEnd(parsed) ==
    LET Bad(i) == ~IsOk(parsed[i])
    IN  IF \E i \in 1..Len(parsed) : Bad(i)
        THEN parsed[CHOOSE i \in 1..Len(parsed) :
                        Bad(i) /\ \A j \in 1..(i - 1) : ~Bad(j)]
        ELSE Ok([i \in 1..Len(parsed) |-> parsed[i][2]])

\* Deserialize of Vec<T> for the element type named: an array whose elements
\* all parse.
Vec_deserialize(type, jv) ==
    IF jv[1] # "arr" THEN Err("invalid type")
    ELSE VecEnd([i \in 1..Len(jv[2]) |-> deserialize(type, jv[2][i])])

\* Deserialize of Option<T> given the result r of T on a value that is not
\* null: null is None, anything else is Some of what T makes of it.
Option_deserialize(jv, r) ==
    IF jv = JNull THEN Ok(None)
    ELSE IF IsOk(r) THEN Ok(Some(r[2])) ELSE r

\* Deserialize of a value of the given type.
deserialize(type, jv) ==
    CASE type = "VecBytes" -> Vec_deserialize("Bytes", jv)
      [] type = "VecWithdrawal" -> Vec_deserialize("Withdrawal", jv)
      [] type = "OptionVecWithdrawal" ->
            Option_deserialize(jv, Vec_deserialize("Withdrawal", jv))
      [] type = "Withdrawal" -> Withdrawal_deserialize(jv)
      [] type = "OptionB256" ->
            Option_deserialize(jv, scalar_deserialize("B256", jv))
      [] type = "String" ->
            IF jv[1] = "str" THEN Ok(jv[2]) ELSE Err("invalid type")
      [] OTHER -> scalar_deserialize(type, jv)

\* The members a #[serde(flatten)] struct buffers for its flattened field:
\* those whose key is none of its own fields.
Collect(members, own) ==
    SelectSeq(members, LAMBDA m : m[1] \notin KeyNames(own))

----------------------------------------------------------------------------
(* Serialize / Deserialize of the payload records.                         *)

\* ExecutionPayloadV1: derived, camelCase, sixteen fields, unknown keys
\* are ignored.
V1_serialize(v) ==
    [i \in 1..Len(V1Fields) |->
        <<CamelCase(V1Fields[i]),
          serialize(FieldType(V1Fields[i]), v[V1Fields[i]])>>]

V1_deserialize(members) == VisitMap("ExecutionPayloadV1", members, V1Fields)

\* ExecutionPayloadV2: payload_inner flattened, then withdrawals;
\* deny_unknown_fields.
V2_own_fields == <<"withdrawals">>

\* V2_serialize without the flatten attribute on payload_inner.
V2_serialize_nested(v) ==
    << <<"payloadInner", JObj(V1_serialize(v.payload_inner))>>,
       <<"withdrawals", serialize("VecWithdrawal", v.withdrawals)>> >>

V2_serialize(v) ==
    V1_serialize(v.payload_inner)
        \o << <<"withdrawals", serialize("VecWithdrawal", v.withdrawals)>> >>

\* ExecutionPayloadV2 without the deny_unknown_fields attribute.
V2_allow_unknown_fields == FALSE

V2_deny_unknown_fields == TRUE

\* The end of visit_map of a struct with a flattened field: own is the result
\* for the struct's own fields, inner the flattened field's result, left the
\* buffered members nobody consumed.
V2_build(own, inner, left) ==
    IF ~IsOk(own) THEN own
    ELSE IF ~IsOk(inner) THEN inner
    ELSE IF V2_deny_unknown_fields /\ left # <<>>
    THEN Err("unknown field")
    ELSE Ok([payload_inner |-> inner[2],
             withdrawals |-> own[2].withdrawals])

V2_deserialize(members) ==
    V2_build(VisitMap("ExecutionPayloadV2", members, V2_own_fields),
             V1_deserialize(Collect(members, V2_own_fields)),
             Collect(Collect(members, V2_own_fields), V1Fields))

\* ExecutionPayloadV3: payload_inner (a V2) flattened, then blobGasUsed and
\* excessBlobGas; the flattened V2 sees every member V3 did not consume.
V3_own_fields == <<"blob_gas_used", "excess_blob_gas">>

\* V3_serialize with the values of the two blob fields exchanged.
V3_serialize_swapped(v) ==
    V2_serialize(v.payload_inner)
        \o << <<"blobGasUsed", serialize("u64", v.excess_blob_gas)>>,
              <<"excessBlobGas", serialize("u64", v.blob_gas_used)>> >>

V3_serialize(v) ==
    V2_serialize(v.payload_inner)
        \o << <<"blobGasUsed", serialize("u64", v.blob_gas_used)>>,
              <<"excessBlobGas", serialize("u64", v.excess_blob_gas)>> >>

V3_build(own, inner) ==
    IF ~IsOk(own) THEN own
    ELSE IF ~IsOk(inner) THEN inner
    ELSE Ok([payload_inner |-> inner[2],
             blob_gas_used |-> own[2].blob_gas_used,
             excess_blob_gas |-> own[2].excess_blob_gas])

\* The result of a struct read from the entries a flattening parent has
\* buffered instead of from the document: there a sequence that goes on
\* after the last field is an invalid length.
FromContent(r) ==
    IF r = Err("trailing characters") THEN Err("invalid length") ELSE r

V3_deserialize(members) ==
    V3_build(VisitMap("ExecutionPayloadV3", members, V3_own_fields),
             FromContent(V2_deserialize(Collect(members, V3_own_fields))))

\* ExecutionPayloadInputV2: execution_payload flattened, then the optional
\* withdrawals (skipped when None); deny_unknown_fields.
InputV2_own_fields == <<"withdrawals">>

\* withdrawals without the skip_serializing_if attribute.
InputV2_never_skip(v) == FALSE

InputV2_skip_serializing(v) == v.withdrawals = None

InputV2_serialize(v) ==
    V1_serialize(v.execution_payload)
        \o IF InputV2_skip_serializing(v) THEN <<>>
           ELSE << <<"withdrawals",
                     serialize("OptionVecWithdrawal", v.withdrawals)>> >>

\* ExecutionPayloadInputV2 without the deny_unknown_fields attribute.
InputV2_allow_unknown_fields == FALSE

InputV2_deny_unknown_fields == TRUE

InputV2_build(own, inner, left) ==
    IF ~IsOk(own) THEN own
    ELSE IF ~IsOk(inner) THEN inner
    ELSE IF InputV2_deny_unknown_fields /\ left # <<>>
    THEN Err("unknown field")
    ELSE Ok([execution_payload |-> inner[2],
             withdrawals |-> own[2].withdrawals])

\* A deserializer that stops reading at the withdrawals key.
InputV2_deserialize_in_order(members) ==
    InputV2_build(VisitMap("ExecutionPayloadInputV2", members,
                           InputV2_own_fields),
                  V1_deserialize(Collect(
                      SubSeq(members, 1,
                             IF "withdrawals" \in Keys(members)
                             THEN CHOOSE i \in 1..Len(members) :
                                    /\ members[i][1] = "withdrawals"
                                    /\ \A j \in 1..(i - 1) :
                                          members[j][1] # "withdrawals"
                             ELSE Len(members)),
                      InputV2_own_fields)),
                  Collect(Collect(members, InputV2_own_fields), V1Fields))

InputV2_deserialize(members) ==
    InputV2_build(VisitMap("ExecutionPayloadInputV2", members,
                           InputV2_own_fields),
                  V1_deserialize(Collect(members, InputV2_own_fields)),
                  Collect(Collect(members, InputV2_own_fields), V1Fields))

\* ExecutionPayload: the variants are <<"V1", v1>>, <<"V2", v2>>, <<"V3", v3>>.
\* Serialize is untagged: the active variant's own document.
ExecutionPayload_serialize(p) ==
    CASE p[1] = "V1" -> V1_serialize(p[2])
      [] p[1] = "V2" -> V2_serialize(p[2])
      [] p[1] = "V3" -> V3_serialize(p[2])

\* From<ExecutionPayloadV1 | V2 | V3> for ExecutionPayload.
From(type, v) ==
    CASE type = "ExecutionPayloadV1" -> <<"V1", v>>
      [] type = "ExecutionPayloadV2" -> <<"V2", v>>
      [] type = "ExecutionPayloadV3" -> <<"V3", v>>

\* The variants declared oldest first.
ExecutionPayloadDesc_variants_oldest_first == <<"V1", "V2", "V3">>

\* The variants of ExecutionPayloadDesc in declaration order.
ExecutionPayloadDesc_variants == <<"V3", "V2", "V1">>

VariantDeserialize(variant, members) ==
    CASE variant = "V1" -> V1_deserialize(members)
      [] variant = "V2" -> V2_deserialize(members)
      [] variant = "V3" -> V3_deserialize(members)

\* Deserialize of an untagged enum: the buffered document is offered to each
\* variant in declaration order and the first success is kept.
RECURSIVE Untagged_deserialize(_, _)
\* An untagged resolution that prefers the last variant that accepts.
Untagged_try_last(variants, members, r) ==
    IF IsOk(Untagged_deserialize(Tail(variants), members))
    THEN Untagged_deserialize(Tail(variants), members)
    ELSE IF IsOk(r) THEN Ok(<<Head(variants), r[2]>>)
    ELSE Untagged_deserialize(Tail(variants), members)

Untagged_try(variants, members, r) ==
    IF IsOk(r) THEN Ok(<<Head(variants), r[2]>>)
    ELSE Untagged_deserialize(Tail(variants), members)

Untagged_deserialize(variants, members) ==
    IF variants = <<>> THEN Err("data did not match any variant")
    ELSE Untagged_try(variants, members,
                      VariantDeserialize(Head(variants), members))

ExecutionPayload_deserialize(members) ==
    Untagged_deserialize(ExecutionPayloadDesc_variants, members)

\* serde_json::to_string(&value) for a typed value.
to_json(v) ==
    CASE v[1] = "ExecutionPayloadV1" -> V1_serialize(v[2])
      [] v[1] = "ExecutionPayloadV2" -> V2_serialize(v[2])
      [] v[1] = "ExecutionPayloadV3" -> V3_serialize(v[2])
      [] v[1] = "ExecutionPayloadInputV2" -> InputV2_serialize(v[2])
      [] v[1] = "ExecutionPayload" -> ExecutionPayload_serialize(v[2])

\* serde_json::from_str::<T>(document) for the type named t.
from_json(t, members) ==
    CASE t = "ExecutionPayloadV1" -> V1_deserialize(members)
      [] t = "ExecutionPayloadV2" -> V2_deserialize(members)
      [] t = "ExecutionPayloadV3" -> V3_deserialize(members)
      [] t = "ExecutionPayloadInputV2" -> InputV2_deserialize(members)
      [] t = "ExecutionPayload" -> ExecutionPayload_deserialize(members)

----------------------------------------------------------------------------
(* The records the scenarios start from.                                   *)

\* The i-th quantity of the explored inputs; 0 is among them.
Quantity(i) == i * 3141592

TxSample(i) == Pattern(i + 1, 248)

WithdrawalSample(i) ==
    [index |-> i, validator_index |-> 16 + i, address |-> Pattern(20, i),
     amount |-> Quantity(i)]

\* An ExecutionPayloadV1 with e bytes of extra data, t transactions, and
\* difficulty, nonce and block number taken from q.
V1Sample(e, t, q) ==
    [parent_hash |-> Pattern(32, 103),
     fee_recipient |-> Pattern(20, 0),
     state_root |-> Pattern(32, 118),
     receipts_root |-> Pattern(32, 78),
     logs_bloom |-> [i \in 1..256 |-> 0],
     prev_randao |-> Pattern(32, 68),
     block_number |-> q + 1,
     gas_limit |-> 3141592,
     gas_used |-> 43104,
     timestamp |-> 4661,
     extra_data |-> Pattern(e, 139),
     base_fee_per_gas |-> 875000000,
     block_hash |-> Pattern(32, 86),
     transactions |-> [i \in 1..t |-> TxSample(i)],
     difficulty |-> Quantity(q),
     nonce |-> LittleEndian(q, 8)]

Withdrawals(w) == [i \in 1..w |-> WithdrawalSample(i)]

V1Values ==
    {V1Sample(e, t, q) : e \in 0..MaxExtraData, t \in 0..MaxTxs,
                         q \in 0..MaxQuantity}

V2Values ==
    {[payload_inner |-> v1, withdrawals |-> Withdrawals(w)] :
        v1 \in V1Values, w \in 0..MaxWithdrawals}

V3Values ==
    {[payload_inner |-> v2, blob_gas_used |-> Quantity(g),
      excess_blob_gas |-> Quantity(MaxQuantity - g)] :
        v2 \in V2Values, g \in 0..MaxQuantity}

\* The record v of the given type with one field changed to another value.
Perturb(type, v, f) ==
    LET Inner(x) == IF type = "ExecutionPayloadV2" THEN x.payload_inner
                    ELSE x.payload_inner.payload_inner
        WithInner(x) ==
            IF type = "ExecutionPayloadV2" THEN [v EXCEPT !.payload_inner = x]
            ELSE [v EXCEPT !.payload_inner.payload_inner = x]
        ws == IF type = "ExecutionPayloadV2" THEN v.withdrawals
              ELSE v.payload_inner.withdrawals
        more == Append(ws, WithdrawalSample(Len(ws) + 1))
    IN  CASE f = "difficulty" ->
                WithInner([Inner(v) EXCEPT !.difficulty = @ + 1])
          [] f = "nonce" ->
                WithInner([Inner(v) EXCEPT !.nonce[1] = (@ + 1) % 256])
          [] f = "extra_data" ->
                WithInner([Inner(v) EXCEPT !.extra_data = Append(@, 255)])
          [] f = "transactions" ->
                WithInner([Inner(v) EXCEPT
                              !.transactions = Append(@, TxSample(Len(@) + 1))])
          [] f = "withdrawals" ->
                IF type = "ExecutionPayloadV2"
                THEN [v EXCEPT !.withdrawals = more]
                ELSE [v EXCEPT !.payload_inner.withdrawals = more]

PerturbedFields ==
    {"difficulty", "nonce", "extra_data", "transactions", "withdrawals"}

----------------------------------------------------------------------------
(* The binary codec scenario: two records of one type are encoded with     *)
(* ssz_append into empty buffers, then the first buffer is decoded with    *)
(* from_ssz_bytes of the same type.                                        *)

InitSsz ==
    /\ pc = "start"
    /\ value \in ({"ExecutionPayloadV2"} \X V2Values)
                    \cup ({"ExecutionPayloadV3"} \X V3Values)
    /\ \E f \in PerturbedFields :
          other = <<value[1], Perturb(value[1], value[2], f)>>
    /\ buf = <<>>
    /\ otherBuf = <<>>
    /\ doc = <<>>
    /\ edit = <<"none", "">>
    /\ target = ""
    /\ result = NoValue
    /\ size = 0
    /\ bundle = NoValue
    /\ before = NoValue
    /\ call = NoValue

EncodeV2 ==
    /\ pc = "start"
    /\ value[1] = "ExecutionPayloadV2"
    /\ buf' = V2_ssz_append(value[2], buf)
    /\ otherBuf' = V2_ssz_append(other[2], otherBuf)
    /\ size' = V2_ssz_bytes_len(value[2])
    /\ pc' = "encoded"
    /\ UNCHANGED <<value, other, doc, edit, target, result,
                 bundle, before, call>>

EncodeV3 ==
    /\ pc = "start"
    /\ value[1] = "ExecutionPayloadV3"
    /\ buf' = V3_ssz_append(value[2], buf)
    /\ otherBuf' = V3_ssz_append(other[2], otherBuf)
    /\ size' = V3_ssz_bytes_len(value[2])
    /\ pc' = "encoded"
    /\ UNCHANGED <<value, other, doc, edit, target, result,
                 bundle, before, call>>

DecodeV2 ==
    /\ pc = "encoded"
    /\ value[1] = "ExecutionPayloadV2"
    /\ result' = V2_from_ssz_bytes(buf)
    /\ target' = "ExecutionPayloadV2"
    /\ pc' = "decoded"
    /\ UNCHANGED <<value, other, buf, otherBuf, doc, edit,
                 size, bundle, before, call>>

DecodeV3 ==
    /\ pc = "encoded"
    /\ value[1] = "ExecutionPayloadV3"
    /\ result' = V3_from_ssz_bytes(buf)
    /\ target' = "ExecutionPayloadV3"
    /\ pc' = "decoded"
    /\ UNCHANGED <<value, other, buf, otherBuf, doc, edit,
                 size, bundle, before, call>>

NextSsz == EncodeV2 \/ EncodeV3 \/ DecodeV2 \/ DecodeV3

SpecSsz == InitSsz /\ [][NextSsz]_vars

----------------------------------------------------------------------------
(* Claims about the binary codec.                                          *)

\* C1: binary round-trip. Decoding the bytes ssz_append wrote for an
\* ExecutionPayloadV2 or ExecutionPayloadV3 succeeds and returns the encoded
\* record, equal in every field (difficulty and nonce included).
C1_BinaryRoundTrip ==
    pc = "decoded" => result = Ok(value[2])

\* C2: the binary encoding is injective. Two records of the same version
\* that differ in some field are written as different byte sequences.
C2_BinaryInjective ==
    (pc = "encoded" /\ value # other) => buf # otherBuf

\* The field sequence of each version when it is its parent's full sequence
\* followed by its own fields.
V2_layered_fields == V1Fields \o <<"withdrawals">>

V3_layered_fields ==
    V2_layered_fields \o <<"blob_gas_used", "excess_blob_gas">>

TypesOf(fields) == [i \in 1..Len(fields) |-> FieldType(fields[i])]

\* The bytes the fields take in the fixed part of a container: the width of
\* a fixed-size field, one offset for a variable-size field.
RECURSIVE HeadLen(_)
HeadLen(fields) ==
    IF fields = <<>> THEN 0
    ELSE (IF is_ssz_fixed_len(FieldType(Head(fields)))
          THEN ssz_fixed_len(FieldType(Head(fields)))
          ELSE BYTES_PER_LENGTH_OFFSET)
         + HeadLen(Tail(fields))

\* The container encoding of the given fields of the typed record tv.
EncodeFields(tv, fields) ==
    SszEncoder_finalize(AppendFields(
        SszEncoder_container(<<>>, HeadLen(fields)),
        [i \in 1..Len(fields) |->
            <<fields[i],
              IF tv[1] = "ExecutionPayloadV2" THEN V2_field(tv[2], fields[i])
              ELSE V3_field(tv[2], fields[i])>>]))

\* C12: binary layering. The fields the binary codec of ExecutionPayloadV2
\* writes and reads are all of ExecutionPayloadV1's fields in declaration
\* order followed by withdrawals, and ExecutionPayloadV3's are V2's followed
\* by blob_gas_used and excess_blob_gas.
C12_BinaryLayering ==
    pc = "encoded"
    => /\ value[1] = "ExecutionPayloadV2"
            => /\ V2_appended_fields = V2_layered_fields
               /\ V2_registered_types = TypesOf(V2_layered_fields)
               /\ V2_decoded_fields = V2_layered_fields
               /\ buf = EncodeFields(value, V2_layered_fields)
       /\ value[1] = "ExecutionPayloadV3"
            => /\ V3_appended_fields = V3_layered_fields
               /\ V3_registered_types = TypesOf(V3_layered_fields)
               /\ V3_decoded_fields = V3_layered_fields
               /\ buf = EncodeFields(value, V3_layered_fields)

\* C13: length agreement. ssz_bytes_len of an ExecutionPayloadV2 or
\* ExecutionPayloadV3 is the number of bytes ssz_append writes for it.
C13_LengthAgreement ==
    pc = "encoded" => size = Len(buf)

\* The fields ssz_append writes for the typed record tv.
AppendedFields(tv) ==
    IF tv[1] = "ExecutionPayloadV2" THEN V2_appended_fields
    ELSE V3_appended_fields

\* The offsets found in the fixed part of buffer b at the places of the
\* variable-size fields, in field order.
OffsetsIn(b, fields) ==
    LET at == SelectSeq([i \in 1..Len(fields) |-> i],
                        LAMBDA i : ~is_ssz_fixed_len(FieldType(fields[i])))
    IN  [k \in 1..Len(at) |->
            FromLittleEndian(
                Slice(b, HeadLen(SubSeq(fields, 1, at[k] - 1)),
                      HeadLen(SubSeq(fields, 1, at[k] - 1))
                        + BYTES_PER_LENGTH_OFFSET))]

\* C14: offset monotonicity. In a buffer written by ssz_append the offsets
\* of extra_data, transactions and withdrawals do not decrease, each is at
\* most the end of its field (the next offset, or the buffer's end), and
\* all lie between the head length and the buffer length.
C14_OffsetMonotonicity ==
    pc = "encoded"
    => LET offs == OffsetsIn(buf, AppendedFields(value))
           End(k) == IF k < Len(offs) THEN offs[k + 1] ELSE Len(buf)
       IN  /\ Len(offs) = 3
           /\ \A k \in 1..Len(offs) :
                /\ offs[k] <= End(k)
                /\ HeadLen(AppendedFields(value)) <= offs[k]
                /\ offs[k] <= Len(buf)

C14_Witness ==
    /\ pc = "encoded"
    /\ value[1] = "ExecutionPayloadV3"
    /\ LET offs == OffsetsIn(buf, V3_appended_fields)
       IN  /\ offs[1] = HeadLen(V3_appended_fields)
           /\ offs[1] < offs[2]
           /\ offs[2] < offs[3]
           /\ offs[3] < Len(buf)

\* The types from_ssz_bytes registers and the fields it then materializes
\* for the typed record tv.
RegisteredTypes(tv) ==
    IF tv[1] = "ExecutionPayloadV2" THEN V2_registered_types
    ELSE V3_registered_types

DecodedFields(tv) ==
    IF tv[1] = "ExecutionPayloadV2" THEN V2_decoded_fields
    ELSE V3_decoded_fields

\* C25: two-pass agreement. In from_ssz_bytes of ExecutionPayloadV2 and of
\* ExecutionPayloadV3 the types registered in the first pass are, in number
\* and in order, the types of the fields decode_next materializes in the
\* second pass, and no decode_next is issued after the registered items
\* are exhausted.
C25_TwoPassAgreement ==
    pc = "decoded"
    => /\ Len(RegisteredTypes(value)) = Len(DecodedFields(value))
       /\ RegisteredTypes(value) = TypesOf(DecodedFields(value))
       /\ result # Err("OutOfBoundsByte")

\* The value of field f of the typed record tv.
FieldOf(tv, f) ==
    IF tv[1] = "ExecutionPayloadV2" THEN V2_field(tv[2], f)
    ELSE V3_field(tv[2], f)

\* C26: head-size agreement. In a buffer written by ssz_append the offset
\* of the first variable-size field is the head length, the sum of the
\* widths of the fixed-size fields appended and 4 bytes for each
\* variable-size field appended, and each later offset is the one before
\* it plus the length of the content written for the field before it.
C26_HeadSizeAgreement ==
    pc = "encoded"
    => LET fields == AppendedFields(value)
           offs == OffsetsIn(buf, fields)
           var == SelectSeq(fields,
                            LAMBDA f : ~is_ssz_fixed_len(FieldType(f)))
           Content(k) == as_ssz_bytes(FieldType(var[k]),
                                      FieldOf(value, var[k]))
       IN  /\ offs[1] = HeadLen(fields)
           /\ \A k \in 2..Len(offs) :
                offs[k] = offs[k - 1] + Len(Content(k - 1))
           /\ Len(buf) = offs[Len(offs)] + Len(Content(Len(offs)))

\* An ExecutionPayloadV2 whose three variable-size fields all have content
\* was written.
C26_Witness ==
    /\ pc = "encoded"
    /\ value[1] = "ExecutionPayloadV2"
    /\ value[2].payload_inner.extra_data # <<>>
    /\ value[2].payload_inner.transactions # <<>>
    /\ value[2].withdrawals # <<>>
    /\ LET offs == OffsetsIn(buf, V2_appended_fields)
       IN  /\ offs[1] = 512
           /\ offs[2] = 512 + Len(value[2].payload_inner.extra_data)
           /\ offs[3] > offs[2]

----------------------------------------------------------------------------
(* The JSON codec scenario: a typed value is serialized, the producer of   *)
(* the document may drop some keys or add one key, and the document is     *)
(* deserialized as one of the types.                                       *)

JsonV1Values ==
    {V1Sample(Min(k, MaxExtraData), Min(k, MaxTxs), k) : k \in 0..MaxQuantity}

JsonV2Values ==
    {[payload_inner |-> v1, withdrawals |-> Withdrawals(w)] :
        v1 \in JsonV1Values, w \in 0..MaxWithdrawals}

JsonV3Values ==
    {[payload_inner |-> v2,
      blob_gas_used |-> v2.payload_inner.difficulty,
      excess_blob_gas |-> Quantity(MaxQuantity) - v2.payload_inner.difficulty] :
        v2 \in JsonV2Values}

JsonInputV2Values ==
    {[execution_payload |-> v1, withdrawals |-> ws] :
        v1 \in JsonV1Values,
        ws \in {None} \cup {Some(Withdrawals(w)) : w \in 0..MaxWithdrawals}}

JsonValues ==
    ({"ExecutionPayloadV1"} \X JsonV1Values)
        \cup ({"ExecutionPayloadV2"} \X JsonV2Values)
        \cup ({"ExecutionPayloadV3"} \X JsonV3Values)
        \cup ({"ExecutionPayloadInputV2"} \X JsonInputV2Values)
        \cup ({"ExecutionPayload"} \X
                (({"V1"} \X JsonV1Values) \cup ({"V2"} \X JsonV2Values)
                    \cup ({"V3"} \X JsonV3Values)))

Targets ==
    {"ExecutionPayloadV1", "ExecutionPayloadV2", "ExecutionPayloadV3",
     "ExecutionPayloadInputV2", "ExecutionPayload"}

\* The key of the N42 fields, which documents of other clients do not carry.
N42Keys == {"difficulty", "nonce"}

\* An extra member a producer may add: an unrecognized key, or a key of
\* another version of the payload.
ExtraMember(key) ==
    CASE key = "randomStuff" -> <<key, JArr(<<>>)>>
      [] key = "withdrawals" -> <<key, JArr(<<>>)>>
      [] OTHER -> <<key, JStr(<<"0", "x", "0">>)>>

ExtraKeys == {"randomStuff", "withdrawals", "blobGasUsed", "excessBlobGas"}

\* The keys a producer may leave out: one key of each type of value, and the
\* keys that tell the versions apart.
DroppableKeys ==
    {"parentHash", "blockNumber", "extraData", "transactions", "difficulty",
     "nonce", "withdrawals", "blobGasUsed", "excessBlobGas"}

InsertAt(members, pos, m) ==
    SubSeq(members, 1, pos) \o <<m>> \o SubSeq(members, pos + 1, Len(members))

InitJson ==
    /\ pc = "start"
    /\ value \in JsonValues
    /\ other = NoValue
    /\ buf = <<>>
    /\ otherBuf = <<>>
    /\ doc = <<>>
    /\ edit = <<"none", "">>
    /\ target = ""
    /\ result = NoValue
    /\ size = 0
    /\ bundle = NoValue
    /\ before = NoValue
    /\ call = NoValue

Serialize ==
    /\ pc = "start"
    /\ doc' = to_json(value)
    /\ pc' = "document"
    /\ UNCHANGED <<value, other, buf, otherBuf, edit, target, result,
                 size, bundle, before, call>>

\* The producer leaves out one of the droppable keys, or both N42 keys.
DropKeys ==
    /\ pc = "document"
    /\ edit[1] = "none"
    /\ \E ks \in {{k} : k \in Keys(doc) \cap DroppableKeys} \cup {N42Keys} :
          /\ doc' = SelectSeq(doc, LAMBDA m : m[1] \notin ks)
          /\ edit' = <<"drop", ks>>
    /\ UNCHANGED <<pc, value, other, buf, otherBuf, target, result,
                 size, bundle, before, call>>

\* The producer adds one member: an unrecognized key at any position, or a
\* key of another version at the end.
InjectKey ==
    /\ pc = "document"
    /\ edit[1] = "none"
    /\ \E key \in ExtraKeys :
       \E pos \in (IF key = "randomStuff" THEN 0..Len(doc) ELSE {Len(doc)}) :
          /\ doc' = InsertAt(doc, pos, ExtraMember(key))
          /\ edit' = <<"inject", key>>
    /\ UNCHANGED <<pc, value, other, buf, otherBuf, target, result,
                 size, bundle, before, call>>

\* The keys a producer may write at another place of the document.
MovableKeys == {"transactions", "withdrawals"}

Reverse(members) ==
    [i \in 1..Len(members) |-> members[Len(members) + 1 - i]]

Swap(members, i, j) ==
    [members EXCEPT ![i] = members[j], ![j] = members[i]]

\* The producer writes the members in another order: backwards, or with a
\* movable key and another key exchanged; the document as serialized is
\* kept.
PermuteKeys ==
    /\ pc = "document"
    /\ edit[1] = "none"
    /\ \/ /\ doc' = Reverse(doc)
          /\ edit' = <<"permute", "reverse">>
       \/ \E i \in 1..Len(doc) : \E j \in (i + 1)..Len(doc) :
             /\ {doc[i][1], doc[j][1]} \cap MovableKeys # {}
             /\ doc' = Swap(doc, i, j)
             /\ edit' = <<"permute", <<i, j>>>>
    /\ before' = doc
    /\ UNCHANGED <<pc, value, other, buf, otherBuf, target, result,
                 size, bundle, call>>

Deserialize ==
    /\ pc = "document"
    /\ \E t \in Targets :
          /\ target' = t
          /\ result' = from_json(t, doc)
    /\ pc' = "decoded"
    /\ UNCHANGED <<value, other, buf, otherBuf, doc, edit,
                 size, bundle, before, call>>

NextJson == Serialize \/ DropKeys \/ InjectKey \/ PermuteKeys \/ Deserialize

SpecJson == InitJson /\ [][NextJson]_vars

----------------------------------------------------------------------------
(* Claims about the JSON codec.                                            *)

ConcreteTypes ==
    {"ExecutionPayloadV1", "ExecutionPayloadV2", "ExecutionPayloadV3"}

\* The keys only ExecutionPayloadV3 declares.
V3OnlyKeys == KeyNames(V3_own_fields)

\* The keys ExecutionPayloadV3 knows: its own and those of the records it
\* flattens.
V3KnownKeys ==
    KeyNames(V1Fields) \cup KeyNames(V2_own_fields) \cup KeyNames(V3_own_fields)

\* The keys ExecutionPayloadInputV2 knows.
InputV2KnownKeys == KeyNames(V1Fields) \cup KeyNames(InputV2_own_fields)

\* The keys of the documents other execution clients produce for a V1 payload.
LegacyV1Keys == KeyNames(V1Fields) \ N42Keys

\* C3: human-readable round-trip on the concrete versions. Deserializing the
\* serialization of an ExecutionPayloadV1, V2 or V3 value as the same type
\* succeeds and yields an equal value.
C3_JsonRoundTrip ==
    (pc = "decoded" /\ edit[1] = "none" /\ value[1] \in ConcreteTypes
        /\ target = value[1])
    => result = Ok(value[2])

C3_Witness ==
    /\ pc = "decoded"
    /\ edit[1] = "none"
    /\ value[1] = "ExecutionPayloadV3"
    /\ target = "ExecutionPayloadV3"
    /\ IsOk(result)
    /\ result[2].payload_inner.withdrawals # <<>>
    /\ result[2].payload_inner.payload_inner.difficulty > 0
    /\ result[2].excess_blob_gas # result[2].blob_gas_used

\* The concrete type of a variant of ExecutionPayload.
TypeOfVariant(variant) ==
    CASE variant = "V1" -> "ExecutionPayloadV1"
      [] variant = "V2" -> "ExecutionPayloadV2"
      [] variant = "V3" -> "ExecutionPayloadV3"

ViaConcrete(type, r) == IF IsOk(r) THEN Ok(From(type, r[2])) ELSE r

\* C4: polymorphic round-trip keeps the version. Deserializing the
\* serialization of an ExecutionPayload as ExecutionPayload yields an equal
\* value of the same variant, which is the concrete-type decode of the same
\* document converted with From.
C4_PolymorphicRoundTrip ==
    (pc = "decoded" /\ edit[1] = "none" /\ value[1] = "ExecutionPayload"
        /\ target = "ExecutionPayload")
    => /\ result = Ok(value[2])
       /\ result = ViaConcrete(TypeOfVariant(value[2][1]),
                               from_json(TypeOfVariant(value[2][1]), doc))

C4_Witness ==
    /\ pc = "decoded"
    /\ edit[1] = "none"
    /\ value[1] = "ExecutionPayload"
    /\ value[2][1] = "V3"
    /\ target = "ExecutionPayload"
    /\ IsOk(result)
    /\ result[2][1] = "V3"
    /\ IsOk(V1_deserialize(doc))

\* C5: version resolution never truncates. A document with at least one of
\* the keys blobGasUsed and excessBlobGas never deserializes as the V1 or V2
\* variant of ExecutionPayload: the result is the V3 variant or an error.
C5_NeverTruncates ==
    (pc = "decoded" /\ target = "ExecutionPayload"
        /\ Keys(doc) \cap V3OnlyKeys # {} /\ IsOk(result))
    => result[2][1] = "V3"

\* The result of a first-match resolution over the results v3, v2, v1 of the
\* three concrete deserializers.
FirstMatch(v3, v2, v1) ==
    IF IsOk(v3) THEN Ok(<<"V3", v3[2]>>)
    ELSE IF IsOk(v2) THEN Ok(<<"V2", v2[2]>>)
    ELSE IF IsOk(v1) THEN Ok(<<"V1", v1[2]>>)
    ELSE Err("data did not match any variant")

\* C6: untagged resolution is first-match in the order V3, V2, V1.
\* Deserializing a document as ExecutionPayload yields the variant of the
\* first of the three concrete deserializers that accepts it, with exactly
\* that deserializer's value; if none accepts, the result is one error.
C6_FirstMatch ==
    (pc = "decoded" /\ target = "ExecutionPayload")
    => result = FirstMatch(V3_deserialize(doc), V2_deserialize(doc),
                           V1_deserialize(doc))

C6_Witness ==
    /\ pc = "decoded"
    /\ target = "ExecutionPayload"
    /\ IsOk(result)
    /\ result[2][1] = "V2"
    /\ ~IsOk(V3_deserialize(doc))
    /\ IsOk(V1_deserialize(doc))

\* C7: strict-mode rejection for V3. A document with exactly V3's known keys
\* and well-formed values deserializes as ExecutionPayloadV3, and the same
\* document with one unrecognized key added at any position does not.
C7_V3Strict ==
    (pc = "decoded" /\ target = "ExecutionPayloadV3"
        /\ value[1] = "ExecutionPayloadV3")
    => /\ edit[1] = "none" => (Keys(doc) = V3KnownKeys /\ IsOk(result))
       /\ edit = <<"inject", "randomStuff">> => ~IsOk(result)

C7_Witness ==
    /\ pc = "decoded"
    /\ target = "ExecutionPayloadV3"
    /\ value[1] = "ExecutionPayloadV3"
    /\ edit = <<"inject", "randomStuff">>
    /\ doc[3][1] = "randomStuff"
    /\ Keys(doc) = V3KnownKeys \cup {"randomStuff"}
    /\ result = Err("unknown field")

\* C8: ExecutionPayloadInputV2 is strict. A document with a key outside the
\* V1 keys and withdrawals does not deserialize as ExecutionPayloadInputV2.
C8_InputV2Strict ==
    (pc = "decoded" /\ target = "ExecutionPayloadInputV2"
        /\ ~(Keys(doc) \subseteq InputV2KnownKeys))
    => ~IsOk(result)

C8_Witness ==
    /\ pc = "decoded"
    /\ target = "ExecutionPayloadInputV2"
    /\ value[1] = "ExecutionPayloadV2"
    /\ edit = <<"inject", "blobGasUsed">>
    /\ Keys(doc) = InputV2KnownKeys \cup {"blobGasUsed"}
    /\ result = Err("unknown field")

\* C9: optional withdrawals stay distinguishable on ExecutionPayloadInputV2.
\* Serializing withdrawals = None emits no withdrawals key; a document
\* without the key deserializes to None and one with "withdrawals": [] to
\* Some of the empty list; None and Some(empty) both survive a round trip.
C9_OptionalWithdrawals ==
    /\ (pc # "start" /\ edit[1] = "none"
            /\ value[1] = "ExecutionPayloadInputV2"
            /\ value[2].withdrawals = None)
       => "withdrawals" \notin Keys(doc)
    /\ (pc = "decoded" /\ target = "ExecutionPayloadInputV2" /\ IsOk(result))
       => /\ "withdrawals" \notin Keys(doc) => result[2].withdrawals = None
          /\ (\E i \in 1..Len(doc) : doc[i] = <<"withdrawals", JArr(<<>>)>>)
                => result[2].withdrawals = Some(<<>>)
    /\ (pc = "decoded" /\ target = "ExecutionPayloadInputV2"
            /\ edit[1] = "none" /\ value[1] = "ExecutionPayloadInputV2")
       => result = Ok(value[2])

C9_Witness ==
    /\ pc = "decoded"
    /\ target = "ExecutionPayloadInputV2"
    /\ value[1] = "ExecutionPayloadInputV2"
    /\ value[2].withdrawals = None
    /\ edit = <<"inject", "withdrawals">>
    /\ IsOk(result)
    /\ result[2].withdrawals = Some(<<>>)
    /\ result[2].execution_payload = value[2].execution_payload

\* C10: a document with exactly the keys parentHash .. transactions and
\* well-formed values deserializes as ExecutionPayloadV1 and as the V1
\* variant of ExecutionPayload, and serializing the decoded V1 value
\* reproduces the document.
C10_LegacyDocument ==
    (pc = "decoded" /\ Keys(doc) = LegacyV1Keys /\ Len(doc) = 14
        /\ target \in {"ExecutionPayloadV1", "ExecutionPayload"})
    => /\ IsOk(result)
       /\ target = "ExecutionPayloadV1" => V1_serialize(result[2]) = doc
       /\ target = "ExecutionPayload"
            => (result[2][1] = "V1" /\ V1_serialize(result[2][2]) = doc)

\* C11: flattening. The serialization of an ExecutionPayloadV2 is one flat
\* object whose keys are exactly those of the serialized embedded
\* ExecutionPayloadV1 plus withdrawals, each once, and deserializing it as
\* ExecutionPayloadV2 returns the same withdrawals.
C11_Flattening ==
    (pc # "start" /\ edit[1] = "none" /\ value[1] = "ExecutionPayloadV2")
    => /\ Keys(doc) = Keys(V1_serialize(value[2].payload_inner))
                        \cup {"withdrawals"}
       /\ Len(doc) = Len(V1Fields) + 1
       /\ \A i \in 1..Len(doc) :
            doc[i][1] # "withdrawals" => doc[i][2][1] # "obj"
       /\ (pc = "decoded" /\ target = "ExecutionPayloadV2")
            => (IsOk(result) /\ result[2].withdrawals = value[2].withdrawals)

C11_Witness ==
    /\ pc = "decoded"
    /\ edit[1] = "none"
    /\ value[1] = "ExecutionPayloadV2"
    /\ target = "ExecutionPayloadV2"
    /\ Len(doc) = 17
    /\ IsOk(result)
    /\ result[2].withdrawals = value[2].withdrawals
    /\ result[2].withdrawals # <<>>

----------------------------------------------------------------------------
(* BlobsBundleV1.  A Bytes48 or Blob is <<kind, s, j>>: the j-th element   *)
(* of that kind of the s-th sidecar it came from.                          *)

Panic(message) == <<"Panic", message>>

\* BlobTransactionSidecar { commitments, proofs, blobs }
BlobTransactionSidecar(commitments, proofs, blobs) ==
    [commitments |-> commitments, proofs |-> proofs, blobs |-> blobs]

\* drain that copies the range and leaves the vector as it was.
drain_copy(vec, len) ==
    IF len > Len(vec)
    THEN [panic |-> TRUE, vec |-> vec, collected |-> <<>>]
    ELSE [panic |-> FALSE, vec |-> vec, collected |-> SubSeq(vec, 1, len)]

\* drain that stops at the end of the vector instead of panicking.
drain_saturating(vec, len) ==
    IF len > Len(vec)
    THEN [panic |-> FALSE, vec |-> <<>>, collected |-> vec]
    ELSE [panic |-> FALSE, vec |-> SubSeq(vec, len + 1, Len(vec)),
          collected |-> SubSeq(vec, 1, len)]

\* Vec::drain(0..len).collect(): the first len elements leave the vector;
\* a range past the end panics before anything is moved.
drain(vec, len) ==
    IF len > Len(vec)
    THEN [panic |-> TRUE, vec |-> vec, collected |-> <<>>]
    ELSE [panic |-> FALSE, vec |-> SubSeq(vec, len + 1, Len(vec)),
          collected |-> SubSeq(vec, 1, len)]

\* The fold of BlobsBundleV1::new over the sidecars from the i-th on.
RECURSIVE fold(_, _, _)
fold(acc, sidecars, i) ==
    IF i > Len(sidecars) THEN acc
    ELSE fold([commitments |-> acc.commitments \o sidecars[i].commitments,
               proofs |-> acc.proofs \o sidecars[i].proofs,
               blobs |-> acc.blobs \o sidecars[i].blobs],
              sidecars, i + 1)

\* new with each sidecar put in front of what was gathered so far.
RECURSIVE fold_prepend(_, _, _)
fold_prepend(acc, sidecars, i) ==
    IF i > Len(sidecars) THEN acc
    ELSE fold_prepend(
              [commitments |-> sidecars[i].commitments \o acc.commitments,
               proofs |-> sidecars[i].proofs \o acc.proofs,
               blobs |-> sidecars[i].blobs \o acc.blobs],
              sidecars, i + 1)

BlobsBundleV1_new_prepend(sidecars) ==
    fold_prepend([commitments |-> <<>>, proofs |-> <<>>, blobs |-> <<>>],
                 sidecars, 1)

BlobsBundleV1_new(sidecars) ==
    fold([commitments |-> <<>>, proofs |-> <<>>, blobs |-> <<>>], sidecars, 1)

\* From<Vec<BlobTransactionSidecar>> and FromIterator.
BlobsBundleV1_from(sidecars) == BlobsBundleV1_new(sidecars)

BlobsBundleV1_from_iter(iter) == BlobsBundleV1_new(iter)

\* The end of take given the three drains, done in the order commitments,
\* proofs, blobs: the first that panics ends the call, the earlier ones
\* have already left self.  The outcome is [self, ret].
take_end(self, c, p, b) ==
    IF c.panic THEN [self |-> self, ret |-> Panic("range end out of bounds")]
    ELSE IF p.panic
    THEN [self |-> [self EXCEPT !.commitments = c.vec],
          ret |-> Panic("range end out of bounds")]
    ELSE IF b.panic
    THEN [self |-> [self EXCEPT !.commitments = c.vec, !.proofs = p.vec],
          ret |-> Panic("range end out of bounds")]
    ELSE [self |-> [commitments |-> c.vec, proofs |-> p.vec, blobs |-> b.vec],
          ret |-> Ok(<<c.collected, p.collected, b.collected>>)]

\* take that leaves the proofs in the bundle.
BlobsBundleV1_take_keep_proofs(self, len) ==
    take_end(self, drain(self.commitments, len),
             drain_copy(self.proofs, len), drain(self.blobs, len))

BlobsBundleV1_take(self, len) ==
    take_end(self, drain(self.commitments, len), drain(self.proofs, len),
             drain(self.blobs, len))

\* A sidecar built with the commitments and the proofs exchanged.
pop_sidecar_end_swapped(taken) ==
    IF ~IsOk(taken.ret) THEN taken
    ELSE [self |-> taken.self,
          ret |-> Ok(BlobTransactionSidecar(taken.ret[2][2], taken.ret[2][1],
                                            taken.ret[2][3]))]

pop_sidecar_end(taken) ==
    IF ~IsOk(taken.ret) THEN taken
    ELSE [self |-> taken.self,
          ret |-> Ok(BlobTransactionSidecar(taken.ret[2][1], taken.ret[2][2],
                                            taken.ret[2][3]))]

\* pop_sidecar that copies the sidecar and leaves the bundle as it was.
BlobsBundleV1_pop_sidecar_peek(self, len) ==
    [self |-> self, ret |-> pop_sidecar_end(BlobsBundleV1_take(self, len)).ret]

BlobsBundleV1_pop_sidecar(self, len) ==
    pop_sidecar_end(BlobsBundleV1_take(self, len))

----------------------------------------------------------------------------
(* The bundle scenario: a bundle is built from a list of sidecars, then    *)
(* take and pop_sidecar are called on it until one of them panics.         *)

Elements(kind, s, n) == [j \in 1..n |-> <<kind, s, j>>]

\* The s-th sidecar of a list, with n commitments, proofs and blobs; short
\* names one of the three sequences, which then lacks its last element.
SidecarSample(s, n, short) ==
    BlobTransactionSidecar(
        Elements("commitment", s, IF short = "commitments" THEN n - 1 ELSE n),
        Elements("proof", s, IF short = "proofs" THEN n - 1 ELSE n),
        Elements("blob", s, IF short = "blobs" THEN n - 1 ELSE n))

\* Lists of sidecars; in some the last sidecar has one sequence shorter than
\* the other two, as its public fields allow.
SidecarLists ==
    UNION {
        {[s \in 1..m |->
            SidecarSample(s, ns[s],
                          IF s = m /\ ns[s] > 0 THEN short ELSE "none")] :
            ns \in [1..m -> 0..MaxBlobs],
            short \in {"none", "commitments", "proofs", "blobs"}} :
        m \in 0..MaxSidecars}

EqualLengths(x) ==
    Len(x.commitments) = Len(x.proofs) /\ Len(x.proofs) = Len(x.blobs)

WellFormed(sidecars) == \A i \in 1..Len(sidecars) : EqualLengths(sidecars[i])

Longest(x) ==
    IF Len(x.commitments) >= Len(x.proofs) /\ Len(x.commitments) >= Len(x.blobs)
    THEN Len(x.commitments)
    ELSE IF Len(x.proofs) >= Len(x.blobs) THEN Len(x.proofs)
    ELSE Len(x.blobs)

Shortest(x) ==
    IF Len(x.commitments) <= Len(x.proofs) /\ Len(x.commitments) <= Len(x.blobs)
    THEN Len(x.commitments)
    ELSE IF Len(x.proofs) <= Len(x.blobs) THEN Len(x.proofs)
    ELSE Len(x.blobs)

InitBundle ==
    /\ pc = "start"
    /\ value \in {"Sidecars"} \X SidecarLists
    /\ other = NoValue
    /\ buf = <<>>
    /\ otherBuf = <<>>
    /\ size = 0
    /\ doc = <<>>
    /\ edit = <<"none", "">>
    /\ target = ""
    /\ result = NoValue
    /\ bundle = NoValue
    /\ before = NoValue
    /\ call = NoValue

\* BlobsBundleV1::new(sidecars), BlobsBundleV1::from(sidecars) or
\* sidecars.into_iter().collect().
New ==
    /\ pc = "start"
    /\ \/ /\ bundle' = BlobsBundleV1_new(value[2])
          /\ call' = <<"new", Len(value[2])>>
       \/ /\ bundle' = BlobsBundleV1_from(value[2])
          /\ call' = <<"from", Len(value[2])>>
       \/ /\ bundle' = BlobsBundleV1_from_iter(value[2])
          /\ call' = <<"from_iter", Len(value[2])>>
    /\ other' = <<"Taken", [commitments |-> <<>>, proofs |-> <<>>,
                            blobs |-> <<>>]>>
    /\ pc' = "built"
    /\ UNCHANGED <<value, buf, otherBuf, size, doc, edit, target,
                   result, before>>

\* What the caller has gathered after a call returned ret: the triple of
\* take, or the fields of the sidecar of pop_sidecar, appended to what the
\* earlier calls returned.
Gather(taken, method, ret) ==
    LET triple == IF method = "take" THEN ret
                  ELSE <<ret.commitments, ret.proofs, ret.blobs>>
    IN  [commitments |-> taken.commitments \o triple[1],
         proofs |-> taken.proofs \o triple[2],
         blobs |-> taken.blobs \o triple[3]]

\* The state after a call on the bundle with the given outcome; `other` is
\* what the calls so far have returned.
Called(method, len, outcome) ==
    /\ before' = bundle
    /\ call' = <<method, len>>
    /\ bundle' = outcome.self
    /\ result' = outcome.ret
    /\ other' = IF IsOk(outcome.ret)
                THEN <<"Taken", Gather(other[2], method, outcome.ret[2])>>
                ELSE other
    /\ pc' = IF IsOk(outcome.ret) THEN "built" ELSE "panicked"
    /\ UNCHANGED <<value, buf, otherBuf, doc, edit, target>>

\* bundle.take(len), for every len up to one past the longest sequence.
Take ==
    /\ pc = "built"
    /\ \E len \in 0..(Longest(bundle) + 1) :
          Called("take", len, BlobsBundleV1_take(bundle, len))
    /\ UNCHANGED size

\* bundle.pop_sidecar(len).
PopSidecar ==
    /\ pc = "built"
    /\ \E len \in 0..(Longest(bundle) + 1) :
          Called("pop_sidecar", len, BlobsBundleV1_pop_sidecar(bundle, len))
    /\ UNCHANGED size

NextBundle == New \/ Take \/ PopSidecar

SpecBundle == InitBundle /\ [][NextBundle]_vars

\* bundle.pop_sidecar(len) with the length of the next sidecar of the list
\* the bundle was built from; size counts the sidecars popped.
PopNext ==
    /\ pc = "built"
    /\ size < Len(value[2])
    /\ Called("pop_sidecar", Len(value[2][size + 1].blobs),
              BlobsBundleV1_pop_sidecar(bundle,
                                        Len(value[2][size + 1].blobs)))
    /\ size' = size + 1

NextSidecars == New \/ PopNext

SpecSidecars == InitBundle /\ [][NextSidecars]_vars

----------------------------------------------------------------------------
(* Claims about BlobsBundleV1.                                             *)

Constructors == {"new", "from", "from_iter"}

\* The three sequences of x hold, at each index, elements that came from the
\* same place of the same sidecar.
Aligned(x) ==
    /\ EqualLengths(x)
    /\ \A i \in 1..Len(x.commitments) :
          /\ Tail(x.commitments[i]) = Tail(x.proofs[i])
          /\ Tail(x.proofs[i]) = Tail(x.blobs[i])

\* C15: take(n) on a bundle whose sequences have equal length L >= n returns
\* the first n commitments, proofs and blobs in order and leaves the other
\* L - n of each in order, index-aligned in both parts.
C15_TakeSplits ==
    (call[1] = "take" /\ EqualLengths(before)
        /\ call[2] <= Len(before.commitments))
    => LET n == call[2]
           L == Len(before.commitments)
       IN  /\ result = Ok(<<SubSeq(before.commitments, 1, n),
                            SubSeq(before.proofs, 1, n),
                            SubSeq(before.blobs, 1, n)>>)
           /\ bundle = [commitments |-> SubSeq(before.commitments, n + 1, L),
                        proofs |-> SubSeq(before.proofs, n + 1, L),
                        blobs |-> SubSeq(before.blobs, n + 1, L)]
           /\ \A k \in 1..3 : Len(result[2][k]) = n
           /\ Len(bundle.commitments) = L - n
           /\ Len(bundle.proofs) = L - n
           /\ Len(bundle.blobs) = L - n
           /\ Aligned(before)
                => /\ Aligned(bundle)
                   /\ Aligned(BlobTransactionSidecar(result[2][1], result[2][2],
                                                     result[2][3]))

C15_Witness ==
    /\ call = <<"take", 1>>
    /\ Aligned(before)
    /\ Len(before.commitments) = 3
    /\ IsOk(result)
    /\ result[2][3] = <<before.blobs[1]>>
    /\ Len(bundle.proofs) = 2
    /\ bundle.proofs[1] = before.proofs[2]

\* What a call returned, as a sidecar.
Returned(method, r) ==
    IF method = "take" THEN BlobTransactionSidecar(r[2][1], r[2][2], r[2][3])
    ELSE r[2]

\* C16: take(n) and pop_sidecar(n) with n greater than the bundle's length
\* panic; what they return is never shorter than n.
C16_PastEndPanics ==
    call[1] \in {"take", "pop_sidecar"}
    => /\ call[2] > Shortest(before)
            => (pc = "panicked" /\ result[1] = "Panic")
       /\ IsOk(result)
            => /\ Len(Returned(call[1], result).commitments) = call[2]
               /\ Len(Returned(call[1], result).proofs) = call[2]
               /\ Len(Returned(call[1], result).blobs) = call[2]

C16_Witness ==
    /\ pc = "panicked"
    /\ call[1] = "pop_sidecar"
    /\ EqualLengths(before)
    /\ Len(before.blobs) = 2
    /\ call[2] = 3
    /\ result[1] = "Panic"
    /\ bundle = before

\* C17: bundle length invariant. A bundle built from sidecars that each have
\* equally long commitments, proofs and blobs has three equally long
\* sequences after any sequence of take and pop_sidecar calls that do not
\* exceed its length.
C17_LengthInvariant ==
    (pc = "built" /\ WellFormed(value[2])) => EqualLengths(bundle)

C17_Witness ==
    /\ pc = "built"
    /\ WellFormed(value[2])
    /\ Len(value[2]) = 2
    /\ call = <<"pop_sidecar", 1>>
    /\ Len(before.blobs) = 2
    /\ Len(bundle.commitments) = 1
    /\ EqualLengths(bundle)

\* The number of elements of the named sequence in the sidecars before the
\* i-th.
RECURSIVE ElementsBefore(_, _, _)
ElementsBefore(sidecars, field, i) ==
    IF i <= 1 THEN 0
    ELSE ElementsBefore(sidecars, field, i - 1) + Len(sidecars[i - 1][field])

\* seq is the named sequences of the sidecars one after the other.
IsConcatenation(seq, sidecars, field) ==
    /\ Len(seq) = ElementsBefore(sidecars, field, Len(sidecars) + 1)
    /\ \A i \in 1..Len(sidecars) :
       \A j \in 1..Len(sidecars[i][field]) :
          seq[ElementsBefore(sidecars, field, i) + j] = sidecars[i][field][j]

\* C18: new, From<Vec<_>> and FromIterator give commitments, proofs and
\* blobs that are the sidecars' sequences concatenated in sidecar order; no
\* sidecars give three empty sequences.
C18_NewConcatenates ==
    (pc = "built" /\ call[1] \in Constructors)
    => /\ \A field \in {"commitments", "proofs", "blobs"} :
            IsConcatenation(bundle[field], value[2], field)
       /\ value[2] = <<>>
            => bundle = [commitments |-> <<>>, proofs |-> <<>>, blobs |-> <<>>]

C18_Witness ==
    /\ pc = "built"
    /\ call[1] = "from_iter"
    /\ Len(value[2]) = 2
    /\ Len(bundle.blobs) = 4
    /\ bundle.blobs[3] = <<"blob", 2, 1>>
    /\ bundle.commitments[2] = <<"commitment", 1, 2>>

----------------------------------------------------------------------------
(* PayloadStatus and PayloadStatusEnum: the hand-written Serialize and the *)
(* derived Deserialize (a flattened, internally tagged enum).              *)

\* Longest validation error text and number of distinct hashes tried.
MaxErrorText == 2
MaxHashes == 1

\* The variants of PayloadStatusEnum in declaration order; a value is
\* <<variant>>, or <<"Invalid", validation_error>>.
PayloadStatusEnum_variants == <<"Valid", "Invalid", "Syncing", "Accepted">>

\* PayloadStatusEnum::as_str.
as_str(self) ==
    CASE self[1] = "Valid" -> <<"V", "A", "L", "I", "D">>
      [] self[1] = "Invalid" -> <<"I", "N", "V", "A", "L", "I", "D">>
      [] self[1] = "Syncing" -> <<"S", "Y", "N", "C", "I", "N", "G">>
      [] self[1] = "Accepted" -> <<"A", "C", "C", "E", "P", "T", "E", "D">>

\* PayloadStatusEnum::validation_error.
validation_error(self) ==
    IF self[1] = "Invalid" THEN Some(self[2]) ELSE None

\* Serialize of Option<B256> and of Option<&str>.
OptionB256_serialize(v) == IF v = None THEN JNull ELSE hex_serialize(v[2])

OptionStr_serialize(v) == IF v = None THEN JNull ELSE JStr(v[2])

\* What a derived Serialize would write: the tagged enum flattened, its
\* validationError present for Invalid only, then latestValidHash.
PayloadStatus_serialize_derived(self) ==
    << <<"status", JStr(as_str(self.status))>> >>
    \o (IF self.status[1] = "Invalid"
        THEN << <<"validationError", JStr(self.status[2])>> >> ELSE <<>>)
    \o << <<"latestValidHash", OptionB256_serialize(self.latest_valid_hash)>> >>

\* impl serde::Serialize for PayloadStatus: a map of three entries.
PayloadStatus_serialize(self) ==
    << <<"status", JStr(as_str(self.status))>>,
       <<"latestValidHash", OptionB256_serialize(self.latest_valid_hash)>>,
       <<"validationError",
         OptionStr_serialize(validation_error(self.status))>> >>

\* #[serde(rename_all = "SCREAMING_SNAKE_CASE")] on the variant names.
ScreamingSnakeCase(variant) ==
    CASE variant = "Valid" -> <<"V", "A", "L", "I", "D">>
      [] variant = "Invalid" -> <<"I", "N", "V", "A", "L", "I", "D">>
      [] variant = "Syncing" -> <<"S", "Y", "N", "C", "I", "N", "G">>
      [] variant = "Accepted" -> <<"A", "C", "C", "E", "P", "T", "E", "D">>

\* The variant identifier read from the value of the tag.
Variant_deserialize(jv) ==
    LET vs == PayloadStatusEnum_variants
        Named(i) == ScreamingSnakeCase(vs[i]) = jv[2]
    IN  IF jv[1] # "str" THEN Err("invalid type")
        ELSE IF \E i \in 1..Len(vs) : Named(i)
        THEN Ok(vs[CHOOSE i \in 1..Len(vs) : Named(i)])
        ELSE Err("unknown variant")

\* The struct variant built from what its visit_map made of the content.
Invalid_build(r) ==
    IF IsOk(r) THEN Ok(<<"Invalid", r[2].validation_error>>) ELSE r

\* A unit variant that accepts no entry besides the tag.
Variant_content_strict(variant, content) ==
    IF variant = "Invalid"
    THEN Invalid_build(VisitMap("PayloadStatusEnum::Invalid", content,
                                <<"validation_error">>))
    ELSE IF content # <<>> THEN Err("unknown field")
    ELSE Ok(<<variant>>)

\* The variant of the tag read from the entries that are not the tag: a
\* unit variant skips them all, Invalid reads its field from them.
Variant_content(variant, content) ==
    IF variant = "Invalid"
    THEN Invalid_build(VisitMap("PayloadStatusEnum::Invalid", content,
                                <<"validation_error">>))
    ELSE Ok(<<variant>>)

\* The end of the tagged visit_map: tag is the result for the first tag
\* entry, ntags the number of tag entries.
Tagged_end(ntags, tag, content) ==
    IF ntags = 0 THEN Err("missing field")
    ELSE IF ~IsOk(tag) THEN tag
    ELSE IF ntags > 1 THEN Err("duplicate field")
    ELSE Variant_content(tag[2], content)

\* derive(Deserialize) of PayloadStatusEnum with tag = "status", over the
\* entries of a map.
PayloadStatusEnum_deserialize(members) ==
    LET tags == SelectSeq(members, LAMBDA m : m[1] = "status")
    IN  Tagged_end(Len(tags),
                   IF tags = <<>> THEN NoValue
                   ELSE Variant_deserialize(tags[1][2]),
                   SelectSeq(members, LAMBDA m : m[1] # "status"))

PayloadStatus_own_fields == <<"latest_valid_hash">>

\* PayloadStatus::with_latest_valid_hash.
PayloadStatus_with_latest_valid_hash(self, latest_valid_hash) ==
    [self EXCEPT !.latest_valid_hash = Some(latest_valid_hash)]

\* PayloadStatus::maybe_latest_valid_hash.
PayloadStatus_maybe_latest_valid_hash(self, latest_valid_hash) ==
    [self EXCEPT !.latest_valid_hash = latest_valid_hash]

PayloadStatus_build(own, status) ==
    IF ~IsOk(own) THEN own
    ELSE IF ~IsOk(status) THEN status
    ELSE Ok([status |-> status[2],
             latest_valid_hash |-> own[2].latest_valid_hash])

\* derive(Deserialize) of PayloadStatus: latestValidHash is its own field,
\* every other entry goes to the flattened status.
PayloadStatus_deserialize(members) ==
    PayloadStatus_build(
        VisitMap("PayloadStatus", members, PayloadStatus_own_fields),
        PayloadStatusEnum_deserialize(
            Collect(members, PayloadStatus_own_fields)))

----------------------------------------------------------------------------
(* The status scenario: a status is serialized, the document may lose a    *)
(* key or have a value replaced by null, is deserialized, and what was     *)
(* read is serialized again (tests::serde_payload_status).                 *)

ErrorText(n) == [i \in 1..n |-> "e"]

PayloadStatusEnumValues ==
    {<<"Valid">>, <<"Syncing">>, <<"Accepted">>}
        \cup {<<"Invalid", ErrorText(n)>> : n \in 0..MaxErrorText}

LatestValidHashes == {None} \cup {Some(Pattern(32, k)) : k \in 1..MaxHashes}

PayloadStatusValues ==
    [status : PayloadStatusEnumValues, latest_valid_hash : LatestValidHashes]

InitStatus ==
    /\ pc = "start"
    /\ value \in {"PayloadStatus"} \X PayloadStatusValues
    /\ other = NoValue
    /\ buf = <<>>
    /\ otherBuf = <<>>
    /\ doc = <<>>
    /\ edit = <<"none", "">>
    /\ target = ""
    /\ result = NoValue
    /\ size = 0
    /\ bundle = NoValue
    /\ before = NoValue
    /\ call = NoValue

\* serde_json::to_string(&status); the document as written is kept.
SerializeStatus ==
    /\ pc = "start"
    /\ doc' = PayloadStatus_serialize(value[2])
    /\ before' = doc'
    /\ pc' = "document"
    /\ UNCHANGED <<value, other, buf, otherBuf, edit, target, result, size,
                 bundle, call>>

\* The producer leaves out one key of the document.
DropStatusKey ==
    /\ pc = "document"
    /\ edit[1] = "none"
    /\ \E k \in Keys(doc) :
          /\ doc' = SelectSeq(doc, LAMBDA m : m[1] # k)
          /\ edit' = <<"drop", k>>
    /\ UNCHANGED <<pc, value, other, buf, otherBuf, target, result, size,
                 bundle, before, call>>

\* The producer writes null for one key that had a value.
NullStatusKey ==
    /\ pc = "document"
    /\ edit[1] = "none"
    /\ \E i \in 1..Len(doc) :
          /\ doc[i][2] # JNull
          /\ doc' = [doc EXCEPT ![i] = <<doc[i][1], JNull>>]
          /\ edit' = <<"null", doc[i][1]>>
    /\ UNCHANGED <<pc, value, other, buf, otherBuf, target, result, size,
                 bundle, before, call>>

\* serde_json::from_str::<PayloadStatus>(s).
DeserializeStatus ==
    /\ pc = "document"
    /\ result' = PayloadStatus_deserialize(doc)
    /\ pc' = "decoded"
    /\ UNCHANGED <<value, other, buf, otherBuf, doc, edit, target, size,
                 bundle, before, call>>

\* serde_json::to_string of the status that was read.
ReserializeStatus ==
    /\ pc = "decoded"
    /\ IsOk(result)
    /\ other' = <<"Document", PayloadStatus_serialize(result[2])>>
    /\ pc' = "reserialized"
    /\ UNCHANGED <<value, buf, otherBuf, doc, edit, target, result, size,
                 bundle, before, call>>

\* status.with_latest_valid_hash(h) on the status as constructed.
WithLatestValidHash ==
    /\ pc = "start"
    /\ \E h \in {Pattern(32, k) : k \in 1..(MaxHashes + 1)} :
          /\ call' = <<"with_latest_valid_hash", h>>
          /\ other' = <<"PayloadStatus",
                        PayloadStatus_with_latest_valid_hash(value[2], h)>>
    /\ pc' = "built"
    /\ UNCHANGED <<value, buf, otherBuf, size, doc, edit, target, result,
                 bundle, before>>

\* status.maybe_latest_valid_hash(arg) on the status as constructed.
MaybeLatestValidHash ==
    /\ pc = "start"
    /\ \E arg \in {None} \cup {Some(Pattern(32, k)) : k \in 1..(MaxHashes + 1)} :
          /\ call' = <<"maybe_latest_valid_hash", arg>>
          /\ other' = <<"PayloadStatus",
                        PayloadStatus_maybe_latest_valid_hash(value[2], arg)>>
    /\ pc' = "built"
    /\ UNCHANGED <<value, buf, otherBuf, size, doc, edit, target, result,
                 bundle, before>>

NextStatus ==
    \/ WithLatestValidHash
    \/ MaybeLatestValidHash
    \/ SerializeStatus
    \/ DropStatusKey
    \/ NullStatusKey
    \/ DeserializeStatus
    \/ ReserializeStatus

SpecStatus == InitStatus /\ [][NextStatus]_vars

----------------------------------------------------------------------------
(* Claims about PayloadStatus.                                             *)

\* The text of each status as the engine API writes it.
StatusText(variant) ==
    CASE variant = "Valid" -> JStr(<<"V", "A", "L", "I", "D">>)
      [] variant = "Invalid" -> JStr(<<"I", "N", "V", "A", "L", "I", "D">>)
      [] variant = "Syncing" -> JStr(<<"S", "Y", "N", "C", "I", "N", "G">>)
      [] variant = "Accepted" ->
            JStr(<<"A", "C", "C", "E", "P", "T", "E", "D">>)

\* C19: the serialization of any PayloadStatus is a flat map of exactly the
\* three keys status, latestValidHash, validationError, in that order and
\* always present: status is the text of the variant, latestValidHash is
\* the hash or null, and validationError is the error text if and only if
\* the status is Invalid, and null otherwise.
C19_StatusThreeKeys ==
    (pc = "document" /\ edit[1] = "none") =>
        LET s == value[2]
        IN  /\ Len(doc) = 3
            /\ doc[1] = <<"status", StatusText(s.status[1])>>
            /\ doc[2][1] = "latestValidHash"
            /\ doc[2][2] = (IF s.latest_valid_hash = None THEN JNull
                            ELSE hex_serialize(s.latest_valid_hash[2]))
            /\ doc[3][1] = "validationError"
            /\ doc[3][2] = (IF s.status[1] = "Invalid" THEN JStr(s.status[2])
                            ELSE JNull)

\* A status that is not Invalid and has no hash is written with both nulls.
C19_Witness ==
    /\ pc = "document"
    /\ edit[1] = "none"
    /\ value[2].status = <<"Accepted">>
    /\ value[2].latest_valid_hash = None
    /\ doc[2] = <<"latestValidHash", JNull>>
    /\ doc[3] = <<"validationError", JNull>>

\* C20: deserializing the serialization of a PayloadStatus yields it; and
\* the document of a status that is not Invalid decodes to the same value
\* whether validationError is null or the key is absent, and what was read
\* serializes again to the full three-key document in both cases.
C20_StatusRoundTrip ==
    /\ (pc \in {"decoded", "reserialized"} /\ edit[1] = "none") =>
            result = Ok(value[2])
    /\ (/\ pc \in {"decoded", "reserialized"}
        /\ value[1] = "PayloadStatus"
        /\ value[2].status[1] # "Invalid"
        /\ edit = <<"drop", "validationError">>) =>
            /\ result = Ok(value[2])
            /\ pc = "reserialized" =>
                  /\ other[2] = before
                  /\ Len(other[2]) = 3
                  /\ other[2][3] = <<"validationError", JNull>>

\* A SYNCING document without the validationError key was read and written
\* again.
C20_Witness ==
    /\ pc = "reserialized"
    /\ value[2].status = <<"Syncing">>
    /\ edit = <<"drop", "validationError">>
    /\ Len(doc) = 2
    /\ result = Ok(value[2])
    /\ Len(other[2]) = 3

----------------------------------------------------------------------------
(* ExecutionPayloadFieldV2 and ExecutionPayloadEnvelopeV2.                 *)

\* The variants of ExecutionPayloadFieldV2 in declaration order.
ExecutionPayloadFieldV2_variants == <<"V1", "V2">>

\* derive(Serialize), untagged: the document of the active variant.
ExecutionPayloadFieldV2_serialize(f) ==
    CASE f[1] = "V1" -> V1_serialize(f[2])
      [] f[1] = "V2" -> V2_serialize(f[2])

\* derive(Deserialize), untagged.
ExecutionPayloadFieldV2_deserialize(members) ==
    Untagged_deserialize(ExecutionPayloadFieldV2_variants, members)

EnvelopeV2_fields == <<"execution_payload", "block_value">>

\* derive(Serialize) of ExecutionPayloadEnvelopeV2.
EnvelopeV2_serialize(e) ==
    << <<"executionPayload",
         JObj(ExecutionPayloadFieldV2_serialize(e.execution_payload))>>,
       <<"blockValue", quantity_serialize(e.block_value)>> >>

\* The untagged enum read from what the array form of ExecutionPayloadV1
\* made of an array: only the V1 variant, a struct without flattening, can
\* be read from a sequence.
ExecutionPayloadFieldV2_from_seq(r) ==
    IF IsOk(r) THEN Ok(<<"V1", r[2]>>)
    ELSE Err("data did not match any variant")

\* ExecutionPayloadFieldV2 from a JSON value of any type: the value is
\* buffered and offered to the variants.
ExecutionPayloadFieldV2_from_value(jv) ==
    CASE jv[1] = "obj" -> ExecutionPayloadFieldV2_deserialize(jv[2])
      [] jv[1] = "arr" /\ Len(jv[2]) = Len(V1Fields) ->
            ExecutionPayloadFieldV2_from_seq(
                V1_deserialize([i \in 1..Len(V1Fields) |->
                                    <<CamelCase(V1Fields[i]), jv[2][i]>>]))
      [] OTHER -> Err("data did not match any variant")

\* derive(Deserialize) of ExecutionPayloadEnvelopeV2: visit_map reads the
\* members in document order, a key met twice is a duplicate, and the first
\* failure is the error.
EnvelopeV2_deserialize(members) ==
    VisitMapEnd("ExecutionPayloadEnvelopeV2", members, EnvelopeV2_fields,
        [i \in 1..Len(members) |->
            IF members[i][1] \notin KeyNames(EnvelopeV2_fields) THEN NoValue
            ELSE IF \E j \in 1..(i - 1) : members[j][1] = members[i][1]
            THEN Err("duplicate field")
            ELSE IF members[i][1] = "executionPayload"
            THEN ExecutionPayloadFieldV2_from_value(members[i][2])
            ELSE deserialize("U256", members[i][2])])

----------------------------------------------------------------------------
(* The envelope scenario: a payload field, alone or in an envelope, is     *)
(* serialized and the document is deserialized as the same type.           *)

ExecutionPayloadFieldV2Values ==
    ({"V1"} \X V1Values) \cup ({"V2"} \X V2Values)

EnvelopeV2Values ==
    [execution_payload : ExecutionPayloadFieldV2Values,
     block_value : {Quantity(q) : q \in 0..MaxQuantity}]

InitEnvelope ==
    /\ pc = "start"
    /\ value \in ({"ExecutionPayloadFieldV2"} \X ExecutionPayloadFieldV2Values)
                  \cup ({"ExecutionPayloadEnvelopeV2"} \X EnvelopeV2Values)
    /\ other = NoValue
    /\ buf = <<>>
    /\ otherBuf = <<>>
    /\ doc = <<>>
    /\ edit = <<"none", "">>
    /\ target = ""
    /\ result = NoValue
    /\ size = 0
    /\ bundle = NoValue
    /\ before = NoValue
    /\ call = NoValue

SerializeField ==
    /\ pc = "start"
    /\ value[1] = "ExecutionPayloadFieldV2"
    /\ doc' = ExecutionPayloadFieldV2_serialize(value[2])
    /\ pc' = "document"
    /\ UNCHANGED <<value, other, buf, otherBuf, edit, target, result, size,
                 bundle, before, call>>

SerializeEnvelope ==
    /\ pc = "start"
    /\ value[1] = "ExecutionPayloadEnvelopeV2"
    /\ doc' = EnvelopeV2_serialize(value[2])
    /\ pc' = "document"
    /\ UNCHANGED <<value, other, buf, otherBuf, edit, target, result, size,
                 bundle, before, call>>

DeserializeField ==
    /\ pc = "document"
    /\ value[1] = "ExecutionPayloadFieldV2"
    /\ target' = value[1]
    /\ result' = ExecutionPayloadFieldV2_deserialize(doc)
    /\ pc' = "decoded"
    /\ UNCHANGED <<value, other, buf, otherBuf, doc, edit, size, bundle,
                 before, call>>

DeserializeEnvelope ==
    /\ pc = "document"
    /\ value[1] = "ExecutionPayloadEnvelopeV2"
    /\ target' = value[1]
    /\ result' = EnvelopeV2_deserialize(doc)
    /\ pc' = "decoded"
    /\ UNCHANGED <<value, other, buf, otherBuf, doc, edit, size, bundle,
                 before, call>>

NextEnvelope ==
    \/ SerializeField
    \/ SerializeEnvelope
    \/ DeserializeField
    \/ DeserializeEnvelope

SpecEnvelope == InitEnvelope /\ [][NextEnvelope]_vars

\* C23: envelope payload round-trip keeps the version. Deserializing the
\* serialization of an ExecutionPayloadFieldV2, alone or inside an
\* ExecutionPayloadEnvelopeV2, yields the same value with the same variant:
\* a V2 payload comes back as V2 with its withdrawals, not as V1.
C23_EnvelopeRoundTrip ==
    pc = "decoded" => result = Ok(value[2])

----------------------------------------------------------------------------
(* impl ExecutionPayload: the accessors.  An ExecutionPayload is           *)
(* <<variant, record>>; a reference is modelled by the record it points    *)
(* to, and a write through as_v1_mut by the payload after the write.       *)

ExecutionPayload_as_v1(self) ==
    CASE self[1] = "V1" -> self[2]
      [] self[1] = "V2" -> self[2].payload_inner
      [] self[1] = "V3" -> self[2].payload_inner.payload_inner

\* A write through as_v1_mut that turns the payload into the V1 variant.
ExecutionPayload_as_v1_mut_write_retag(self, v1) == <<"V1", v1>>

\* *self.as_v1_mut() = v1.
ExecutionPayload_as_v1_mut_write(self, v1) ==
    CASE self[1] = "V1" -> <<"V1", v1>>
      [] self[1] = "V2" -> <<"V2", [self[2] EXCEPT !.payload_inner = v1]>>
      [] self[1] = "V3" ->
            <<"V3", [self[2] EXCEPT !.payload_inner.payload_inner = v1]>>

\* if let Some(p) = self.as_v2_mut() { *p = v2 }: a V1 payload has no V2
\* part and stays as it is.
ExecutionPayload_as_v2_mut_write(self, v2) ==
    CASE self[1] = "V1" -> self
      [] self[1] = "V2" -> <<"V2", v2>>
      [] self[1] = "V3" -> <<"V3", [self[2] EXCEPT !.payload_inner = v2]>>

\* if let Some(p) = self.as_v3_mut() { *p = v3 }: only a V3 payload has a
\* V3 part.
ExecutionPayload_as_v3_mut_write(self, v3) ==
    IF self[1] = "V3" THEN <<"V3", v3>> ELSE self

ExecutionPayload_into_v1(self) ==
    CASE self[1] = "V1" -> self[2]
      [] self[1] = "V2" -> self[2].payload_inner
      [] self[1] = "V3" -> self[2].payload_inner.payload_inner

\* as_v2 that knows the V2 variant only.
ExecutionPayload_as_v2_exact(self) ==
    IF self[1] = "V2" THEN Some(self[2]) ELSE None

ExecutionPayload_as_v2(self) ==
    CASE self[1] = "V1" -> None
      [] self[1] = "V2" -> Some(self[2])
      [] self[1] = "V3" -> Some(self[2].payload_inner)

ExecutionPayload_as_v3(self) ==
    CASE self[1] \in {"V1", "V2"} -> None
      [] self[1] = "V3" -> Some(self[2])

\* withdrawals() given what as_v2() returned.
ExecutionPayload_withdrawals_of(v2) ==
    IF v2 = None THEN None ELSE Some(v2[2].withdrawals)

ExecutionPayload_withdrawals(self) ==
    ExecutionPayload_withdrawals_of(ExecutionPayload_as_v2(self))

----------------------------------------------------------------------------
(* The accessor scenario: a record of one version is converted with From,  *)
(* then an accessor is called on the payload or an ExecutionPayloadV1 is   *)
(* written through as_v1_mut; `other` is the payload, `before` the payload *)
(* before a write, `call` the accessor and its argument.                   *)

InitAccess ==
    /\ pc = "start"
    /\ value \in ({"ExecutionPayloadV1"} \X V1Values)
                  \cup ({"ExecutionPayloadV2"} \X V2Values)
                  \cup ({"ExecutionPayloadV3"} \X V3Values)
    /\ other = NoValue
    /\ buf = <<>>
    /\ otherBuf = <<>>
    /\ doc = <<>>
    /\ edit = <<"none", "">>
    /\ target = ""
    /\ result = NoValue
    /\ size = 0
    /\ bundle = NoValue
    /\ before = NoValue
    /\ call = NoValue

Upcast ==
    /\ pc = "start"
    /\ other' = From(value[1], value[2])
    /\ pc' = "payload"
    /\ UNCHANGED <<value, buf, otherBuf, size, doc, edit, target, result,
                 bundle, before, call>>

\* The accessor named was called on the payload and returned r.
Read(accessor, r) ==
    /\ pc = "payload"
    /\ call' = <<accessor, <<>>>>
    /\ result' = r
    /\ pc' = "read"
    /\ UNCHANGED <<value, other, buf, otherBuf, size, doc, edit, target,
                 bundle, before>>

AsV1 == Read("as_v1", ExecutionPayload_as_v1(other))

IntoV1 == Read("into_v1", ExecutionPayload_into_v1(other))

AsV2 == Read("as_v2", ExecutionPayload_as_v2(other))

AsV3 == Read("as_v3", ExecutionPayload_as_v3(other))

WithdrawalsOf == Read("withdrawals", ExecutionPayload_withdrawals(other))

AsV1MutWrite ==
    /\ pc = "payload"
    /\ \E v1 \in V1Values :
          /\ call' = <<"as_v1_mut", v1>>
          /\ other' = ExecutionPayload_as_v1_mut_write(other, v1)
    /\ before' = other
    /\ pc' = "written"
    /\ UNCHANGED <<value, buf, otherBuf, size, doc, edit, target, result,
                 bundle>>

\* Another ExecutionPayloadV2 is written through as_v2_mut, where the
\* payload has a V2 part.
AsV2MutWrite ==
    /\ pc = "payload"
    /\ \E v2 \in V2Values :
          /\ call' = <<"as_v2_mut", v2>>
          /\ other' = ExecutionPayload_as_v2_mut_write(other, v2)
    /\ before' = other
    /\ pc' = "written"
    /\ UNCHANGED <<value, buf, otherBuf, size, doc, edit, target, result,
                 bundle>>

\* Another ExecutionPayloadV3 is written through as_v3_mut, where the
\* payload is a V3 payload.
AsV3MutWrite ==
    /\ pc = "payload"
    /\ \E v3 \in V3Values :
          /\ call' = <<"as_v3_mut", v3>>
          /\ other' = ExecutionPayload_as_v3_mut_write(other, v3)
    /\ before' = other
    /\ pc' = "written"
    /\ UNCHANGED <<value, buf, otherBuf, size, doc, edit, target, result,
                 bundle>>

\* An accessor is called on the payload after the write.
ReadBack ==
    /\ pc = "written"
    /\ result' = ExecutionPayload_as_v1(other)
    /\ pc' = "read back"
    /\ UNCHANGED <<value, other, buf, otherBuf, size, doc, edit, target,
                 bundle, before, call>>

NextAccess ==
    \/ Upcast
    \/ AsV1
    \/ IntoV1
    \/ AsV2
    \/ AsV3
    \/ WithdrawalsOf
    \/ AsV1MutWrite
    \/ AsV2MutWrite
    \/ AsV3MutWrite
    \/ ReadBack

SpecAccess == InitAccess /\ [][NextAccess]_vars

----------------------------------------------------------------------------
(* Claims about the accessors of ExecutionPayload.                         *)

\* The ExecutionPayloadV1 inside the record the payload was made from, and
\* its withdrawals when it has them.
EmbeddedV1(tv) ==
    CASE tv[1] = "ExecutionPayloadV1" -> tv[2]
      [] tv[1] = "ExecutionPayloadV2" -> tv[2].payload_inner
      [] tv[1] = "ExecutionPayloadV3" -> tv[2].payload_inner.payload_inner

WithdrawalsIn(tv) ==
    IF tv[1] = "ExecutionPayloadV2" THEN tv[2].withdrawals
    ELSE tv[2].payload_inner.withdrawals

\* C21: withdrawals() is None for the V1 variant and Some of the active
\* variant's withdrawals for V2 and V3; as_v2() is None exactly for V1 and
\* as_v3() is Some exactly for V3.
C21_WithdrawalsAccessor ==
    pc = "read"
    => /\ call[1] = "withdrawals"
            => result = (IF value[1] = "ExecutionPayloadV1" THEN None
                         ELSE Some(WithdrawalsIn(value)))
       /\ call[1] = "as_v2"
            => /\ (result = None) <=> (value[1] = "ExecutionPayloadV1")
               /\ value[1] = "ExecutionPayloadV2" => result = Some(value[2])
               /\ value[1] = "ExecutionPayloadV3"
                    => result = Some(value[2].payload_inner)
       /\ call[1] = "as_v3"
            => /\ (result # None) <=> (value[1] = "ExecutionPayloadV3")
               /\ value[1] = "ExecutionPayloadV3" => result = Some(value[2])

\* withdrawals() was called on a V3 payload that has a withdrawal.
C21_Witness ==
    /\ pc = "read"
    /\ call[1] = "withdrawals"
    /\ other[1] = "V3"
    /\ value[2].payload_inner.withdrawals # <<>>
    /\ result = Some(value[2].payload_inner.withdrawals)

\* C22: as_v1, as_v1_mut and into_v1 return the embedded ExecutionPayloadV1
\* of the active variant for every variant; a write through as_v1_mut
\* changes that record only and leaves the variant, the withdrawals and
\* blob_gas_used / excess_blob_gas as they were; From followed by into_v1
\* returns the original ExecutionPayloadV1.
C22_DowncastFramed ==
    /\ (pc = "read" /\ call[1] \in {"as_v1", "into_v1"})
            => result = EmbeddedV1(value)
    /\ (pc = "read" /\ call[1] = "into_v1"
            /\ value[1] = "ExecutionPayloadV1") => result = value[2]
    /\ (pc \in {"written", "read back"} /\ call[1] = "as_v1_mut")
            => /\ other[1] = before[1]
               /\ ExecutionPayload_as_v1(other) = call[2]
               /\ pc = "read back" => result = call[2]
               /\ before[1] # "V1"
                    => ExecutionPayload_withdrawals(other)
                            = Some(WithdrawalsIn(value))
               /\ before[1] = "V3"
                    => /\ other[2].blob_gas_used = value[2].blob_gas_used
                       /\ other[2].excess_blob_gas = value[2].excess_blob_gas

\* Another ExecutionPayloadV1 was written into a V3 payload with a
\* withdrawal and read back.
C22_Witness ==
    /\ pc = "read back"
    /\ call[1] = "as_v1_mut"
    /\ before[1] = "V3"
    /\ other[1] = "V3"
    /\ call[2] # EmbeddedV1(value)
    /\ result = call[2]
    /\ other[2].payload_inner.withdrawals # <<>>
    /\ other # before

----------------------------------------------------------------------------
(* Claims about the builders of PayloadStatus.                             *)

\* C24: maybe_latest_valid_hash sets the latest valid hash only if its
\* argument is not None: with Some(h) the result has latest_valid_hash
\* Some(h), with None a status that has a latest valid hash keeps it; the
\* status field is unchanged in both cases.
C24_MaybeLatestValidHash ==
    (pc = "built" /\ call[1] = "maybe_latest_valid_hash")
    => /\ other[2].status = value[2].status
       /\ call[2] # None => other[2].latest_valid_hash = call[2]
       /\ call[2] = None
            => other[2].latest_valid_hash = value[2].latest_valid_hash

----------------------------------------------------------------------------
(* Claims about the order of the keys.                                     *)

\* C27: key-order independence. Deserializing ExecutionPayloadInputV2 does
\* not depend on the order of the keys: a permutation of the keys of an
\* accepted document is accepted and yields the same value.
C27_KeyOrderIndependence ==
    (/\ pc = "decoded"
     /\ edit[1] = "permute"
     /\ target = "ExecutionPayloadInputV2"
     /\ IsOk(InputV2_deserialize(before)))
    => /\ IsOk(result)
       /\ result = InputV2_deserialize(before)

\* A document with withdrawals written before transactions was accepted.
C27_Witness ==
    /\ pc = "decoded"
    /\ edit[1] = "permute"
    /\ target = "ExecutionPayloadInputV2"
    /\ value[1] = "ExecutionPayloadInputV2"
    /\ doc # before
    /\ \E i \in 1..Len(doc) : \E j \in (i + 1)..Len(doc) :
          doc[i][1] = "withdrawals" /\ doc[j][1] = "transactions"
    /\ result = Ok(value[2])
    /\ result[2].withdrawals # None

----------------------------------------------------------------------------
(* Claims about sequences of calls on a bundle.                            *)

\* C28: take is all-or-nothing on failure, also for a bundle whose three
\* sequences have different lengths: when take(n) panics, none of
\* commitments, proofs and blobs has been modified.
C28_TakeAllOrNothing ==
    (pc = "panicked" /\ call[1] = "take") => bundle = before

\* The three sequences the bundle was built with.
Original ==
    [commitments |-> Concat([i \in 1..Len(value[2]) |->
                                value[2][i].commitments]),
     proofs |-> Concat([i \in 1..Len(value[2]) |-> value[2][i].proofs]),
     blobs |-> Concat([i \in 1..Len(value[2]) |-> value[2][i].blobs])]

\* C29: conservation over any sequence of takes. For a bundle built with
\* sequences of equal length, after any sequence of take and pop_sidecar
\* calls that stay within the length, what the calls returned followed by
\* what the bundle holds is the original three sequences, and what the
\* calls returned is what one take of the sum returns.
C29_Conservation ==
    (pc = "built" /\ EqualLengths(Original))
    => /\ other[2].commitments \o bundle.commitments = Original.commitments
       /\ other[2].proofs \o bundle.proofs = Original.proofs
       /\ other[2].blobs \o bundle.blobs = Original.blobs
       /\ EqualLengths(other[2])
       /\ Ok(<<other[2].commitments, other[2].proofs, other[2].blobs>>)
            = BlobsBundleV1_take(Original, Len(other[2].blobs)).ret

\* A take and a pop_sidecar, each of at least one element, were made one
\* after the other and the bundle still holds elements.
C29_Witness ==
    /\ pc = "built"
    /\ EqualLengths(Original)
    /\ call[1] = "pop_sidecar"
    /\ call[2] > 0
    /\ Len(other[2].blobs) > call[2]
    /\ Len(bundle.blobs) > 0
    /\ other[2].blobs \o bundle.blobs = Original.blobs

\* C30: sidecar round-trip. For a list of sidecars that each have equally
\* long commitments, proofs and blobs, new followed by pop_sidecar with each
\* sidecar's length, in list order, returns the sidecars of the list one by
\* one and leaves the bundle with three empty sequences.
C30_SidecarRoundTrip ==
    WellFormed(value[2])
    => /\ pc # "panicked"
       /\ (pc = "built" /\ size > 0) => result = Ok(value[2][size])
       /\ (pc = "built" /\ size = Len(value[2]))
            => bundle = [commitments |-> <<>>, proofs |-> <<>>,
                         blobs |-> <<>>]

\* Two sidecars of different lengths were popped, the second just now.
C30_Witness ==
    /\ pc = "built"
    /\ WellFormed(value[2])
    /\ size = 2
    /\ Len(value[2]) = 2
    /\ Len(value[2][1].blobs) # Len(value[2][2].blobs)
    /\ Len(value[2][1].blobs) > 0
    /\ result = Ok(value[2][2])
    /\ bundle.blobs = <<>>

====
